---------------------------- MODULE Spec2Model ----------------------------
(***************************************************************************)
(* A model of blhost_helper.py: the BlhostHelper session, device           *)
(* resolution, the flash initialisation sequence, the chunked erase, the   *)
(* write orchestration, the read/decode pipeline and the hex-dump parser.  *)
(* Text is modelled as sequences of one-character strings so that          *)
(* formatting and parsing are computed, not assumed.                       *)
(***************************************************************************)
EXTENDS Integers, Sequences, FiniteSets, TLC

None == "None"

(***************************************************************************)
(* Bounds of the model.                                                    *)
(***************************************************************************)
\* Largest number of whole erase blocks in an explicitly requested size.
MaxBlocks == 3
\* Longest read-memory output, in pieces, in the read/decode specification.
MaxPieces == 5
\* Longest read-memory output, in pieces, in the whole-program specification.
MaxOutPieces == 1

(***************************************************************************)
(* Class constants (src/blhost_helper.py:19-46).                           *)
(***************************************************************************)
MAX_ERASE_BLOCK == 1048576
DEFAULT_BAUDRATE == 2000000
NS_start_addr == 134217728
NS_read_addr == 134218752
S_start_addr == 402653184
S_read_addr == 402654208

(***************************************************************************)
(* Strings.                                                                *)
(***************************************************************************)
RECURSIVE Concat(_)
Concat(ss) == IF ss = <<>> THEN <<>> ELSE Head(ss) \o Concat(Tail(ss))

HexUpper == <<"0","1","2","3","4","5","6","7","8","9","A","B","C","D","E","F">>
HexLower == <<"0","1","2","3","4","5","6","7","8","9","a","b","c","d","e","f">>
HexChars == {HexUpper[i] : i \in 1..16} \cup {HexLower[i] : i \in 1..16}
DecChars == {HexUpper[i] : i \in 1..10}
Whitespace == {" ", "\n"}

\* The value of one hexadecimal digit, as int(c, 16) reads it.
HexVal(c) ==
  IF \E i \in 1..16 : HexUpper[i] = c
  THEN (CHOOSE i \in 1..16 : HexUpper[i] = c) - 1
  ELSE (CHOOSE i \in 1..16 : HexLower[i] = c) - 1

\* str.startswith
StartsWith(s, p) == Len(s) >= Len(p) /\ SubSeq(s, 1, Len(p)) = p

\* str.strip(): leading and trailing whitespace removed.
RECURSIVE LStrip(_)
LStrip(s) == IF s # <<>> /\ Head(s) \in Whitespace THEN LStrip(Tail(s)) ELSE s
RECURSIVE RStrip(_)
RStrip(s) ==
  IF s # <<>> /\ s[Len(s)] \in Whitespace THEN RStrip(SubSeq(s, 1, Len(s) - 1)) ELSE s
Strip(s) == LStrip(RStrip(s))

\* str.split(sep) for a one-character separator: empty fields are kept.
RECURSIVE SplitOn(_, _, _)
SplitOn(s, sep, cur) ==
  IF s = <<>> THEN <<cur>>
  ELSE IF Head(s) = sep THEN <<cur>> \o SplitOn(Tail(s), sep, <<>>)
  ELSE SplitOn(Tail(s), sep, Append(cur, Head(s)))

\* str.split() without arguments: fields between runs of whitespace, none empty.
RECURSIVE SplitWs(_, _)
SplitWs(s, cur) ==
  IF s = <<>> THEN (IF cur = <<>> THEN <<>> ELSE <<cur>>)
  ELSE IF Head(s) \in Whitespace
       THEN (IF cur = <<>> THEN <<>> ELSE <<cur>>) \o SplitWs(Tail(s), <<>>)
       ELSE SplitWs(Tail(s), Append(cur, Head(s)))

AllIn(s, chars) == \A i \in 1..Len(s) : s[i] \in chars

(***************************************************************************)
(* The hex-dump parser, _parse_hex_to_file.                                *)
(***************************************************************************)
\* Mutant of ValidHexByte: a longer token is taken for a byte too.
ValidHexByteLonger(hex_byte) == Len(hex_byte) >= 2 /\ AllIn(hex_byte, HexChars)

\* The bytes of one line's tokens: a token counts when it has two characters,
\* both hexadecimal digits.
ValidHexByte(hex_byte) == Len(hex_byte) = 2 /\ AllIn(hex_byte, HexChars)

RECURSIVE TokenBytes(_)
TokenBytes(hex_bytes) ==
  IF hex_bytes = <<>> THEN <<>>
  ELSE (IF ValidHexByte(Head(hex_bytes))
        THEN <<16 * HexVal(Head(hex_bytes)[1]) + HexVal(Head(hex_bytes)[2])>>
        ELSE <<>>) \o TokenBytes(Tail(hex_bytes))

\* Mutant of LineBreaks: the trailer line does not end the loop.
LineBreaksOnlyEmpty(line) == line = <<>>

\* The loop's exit: an empty line or a line starting with "{" ends the loop.
LineBreaks(line) == line = <<>> \/ Head(line) = "{"

\* Mutant of IsHexLine: every line is read as data.
IsHexLineAlways(line) == TRUE

\* A line is read as data when all its characters are hex digits or spaces.
IsHexLine(line) == AllIn(line, HexChars \cup {" "})

RECURSIVE DecodeLines(_)
DecodeLines(lines) ==
  IF lines = <<>> THEN <<>>
  ELSE LET line == Strip(Head(lines)) IN
       IF LineBreaks(line) THEN <<>>
       ELSE (IF IsHexLine(line) THEN TokenBytes(SplitWs(line, <<>>)) ELSE <<>>)
            \o DecodeLines(Tail(lines))

\* binary_data of _parse_hex_to_file for the text hex_output.
DecodeHex(hex_output) == DecodeLines(SplitOn(Strip(hex_output), "\n", <<>>))

(***************************************************************************)
(* Numbers as text: int(s, 16), int(s, 0), int(s), f"0x{n:08X}", f"0x{n:X}".*)
(* A parse result is [ok, val]; ok = FALSE stands for ValueError.          *)
(***************************************************************************)
ParseError == [ok |-> FALSE, val |-> 0]

RECURSIVE DigitsVal(_, _, _)
DigitsVal(s, base, acc) ==
  IF s = <<>> THEN acc ELSE DigitsVal(Tail(s), base, acc * base + HexVal(Head(s)))

HasHexPrefix(s) == StartsWith(s, <<"0", "x">>) \/ StartsWith(s, <<"0", "X">>)

\* int(s, 16): hexadecimal digits, with or without a leading 0x.
ParseHexDigits(d) ==
  IF d # <<>> /\ AllIn(d, HexChars) THEN [ok |-> TRUE, val |-> DigitsVal(d, 16, 0)]
  ELSE ParseError

ParseHex16(s) == ParseHexDigits(IF HasHexPrefix(s) THEN SubSeq(s, 3, Len(s)) ELSE s)

\* int(s): decimal digits (leading zeros allowed), with an optional sign.
ParseUnsignedDec(d) ==
  IF d # <<>> /\ AllIn(d, DecChars) THEN [ok |-> TRUE, val |-> DigitsVal(d, 10, 0)]
  ELSE ParseError

Negated(r) == [ok |-> r.ok, val |-> 0 - r.val]

ParseDec(s) ==
  IF s # <<>> /\ Head(s) = "-" THEN Negated(ParseUnsignedDec(Tail(s)))
  ELSE ParseUnsignedDec(s)

\* An unsigned literal as int(s, 0) reads it: 0x and hexadecimal digits, or a
\* decimal number that has no leading zero unless it is all zeros. (The 0o and
\* 0b prefixes are not among the inputs of this model.)
ParseUnsigned0(s) ==
  IF HasHexPrefix(s) THEN ParseHexDigits(SubSeq(s, 3, Len(s)))
  ELSE IF s # <<>> /\ (Head(s) # "0" \/ AllIn(s, {"0"})) THEN ParseUnsignedDec(s)
       ELSE ParseError

\* int(s, 0): an optional sign, then the literal.
ParseInt0(s) ==
  IF s # <<>> /\ Head(s) = "-" THEN Negated(ParseUnsigned0(Tail(s)))
  ELSE ParseUnsigned0(s)

RECURSIVE HexDigitsOf(_)
HexDigitsOf(n) ==
  IF n < 16 THEN <<HexUpper[n + 1]>> ELSE Append(HexDigitsOf(n \div 16), HexUpper[(n % 16) + 1])

RECURSIVE ZeroPad(_, _)
ZeroPad(s, width) == IF Len(s) >= width THEN s ELSE ZeroPad(<<"0">> \o s, width)

\* f"0x{n:08X}"
Hex08X(n) == <<"0", "x">> \o ZeroPad(HexDigitsOf(n), 8)
\* f"0x{n:X}"
HexX(n) == <<"0", "x">> \o HexDigitsOf(n)

(***************************************************************************)
(* The device registry (device_config.json, read by _load_config) and the  *)
(* blob directory. A variant configuration is a record; NoConfig stands    *)
(* for None. Dictionaries keep their insertion order, so they are          *)
(* sequences here.                                                         *)
(***************************************************************************)
NoConfig == [present |-> FALSE, has_flash_configs |-> FALSE, flash_configs |-> <<>>]

Geometry(size, default, fcb_file) == [size |-> size, default |-> default, fcb_file |-> fcb_file]

VariantConfig(flash_configs) ==
  [present |-> TRUE, has_flash_configs |-> TRUE, flash_configs |-> flash_configs]

\* A variant that declares no "flash_configs" key at all.
VariantNoFlash == [present |-> TRUE, has_flash_configs |-> FALSE, flash_configs |-> <<>>]

Devices ==
  << [name |-> "FCM363X", interfaces |-> <<"usb", "uart">>, default_interface |-> "usb",
      variants |-> << [name |-> "FCM363XAA",
                       config |-> VariantConfig(<<Geometry("4M", FALSE, "fcb_4M.bin"),
                                                  Geometry("8M", TRUE, "fcb_8M.bin")>>)],
                      [name |-> "FCM363XAB",
                       config |-> VariantConfig(<<Geometry("16M", FALSE, "fcb_16M.bin"),
                                                  Geometry("8M", FALSE, "fcb_8M.bin")>>)] >>],
     [name |-> "FGMH63X", interfaces |-> <<"usb">>, default_interface |-> None,
      variants |-> << [name |-> "FGMH63XAA",
                       config |-> VariantConfig(<<Geometry("8M", TRUE, "fcb_8M.bin")>>)] >>],
     [name |-> "FCM363XL", interfaces |-> <<"uart">>, default_interface |-> "uart",
      variants |-> << [name |-> "FCM363XLAC",
                       config |-> VariantConfig(<<Geometry("4M", FALSE, "fcb_4M.bin")>>)] >>],
     [name |-> "FCME63X", interfaces |-> <<"usb", "uart">>, default_interface |-> None,
      variants |-> << [name |-> "FCME63XAA",
                       config |-> VariantConfig(<<Geometry("8M", TRUE, "fcb_missing.bin")>>)],
                      [name |-> "FCME63XAB", config |-> VariantNoFlash] >>],
     [name |-> "FCMA62N", interfaces |-> <<"uart">>, default_interface |-> None,
      variants |-> << >>],
     [name |-> "FCM365X", interfaces |-> <<"usb">>, default_interface |-> None,
      variants |-> << [name |-> "FCM365X",
                       config |-> VariantConfig(<<Geometry("8M", TRUE, "fcb_8M.bin")>>)],
                      [name |-> "FCM365XAB",
                       config |-> VariantConfig(<<Geometry("4M", TRUE, "fcb_4M.bin")>>)] >>],
     [name |-> "FCMB62N", interfaces |-> <<"uart">>, default_interface |-> "usb",
      variants |-> << [name |-> "FCMB62NAA",
                       config |-> VariantConfig(<<Geometry("8M", TRUE, "fcb_8M.bin")>>)] >>] >>

\* The blob files present in the fcb directory.
FcbFilesOnDisk == {"fcb_4M.bin", "fcb_8M.bin", "fcb_16M.bin"}

\* FLASH_SIZE_MAPPING.get(size_str, None); 0 stands for None (no size maps to 0).
FLASH_SIZE_NAMES == <<"4M", "8M", "16M", "32M", "64M">>
FLASH_SIZE_BYTES == <<4194304, 8388608, 16777216, 33554432, 67108864>>

convert_flash_size_to_bytes(size_str) ==
  IF \E i \in 1..Len(FLASH_SIZE_NAMES) : FLASH_SIZE_NAMES[i] = size_str
  THEN FLASH_SIZE_BYTES[CHOOSE i \in 1..Len(FLASH_SIZE_NAMES) : FLASH_SIZE_NAMES[i] = size_str]
  ELSE 0

\* The regions of FLASH_REGIONS, in declaration order.
FLASH_REGIONS ==
  << [key |-> "NS", start_addr |-> NS_start_addr, read_addr |-> NS_read_addr],
     [key |-> "S", start_addr |-> S_start_addr, read_addr |-> S_read_addr] >>

Region(key) == FLASH_REGIONS[CHOOSE i \in 1..Len(FLASH_REGIONS) : FLASH_REGIONS[i].key = key]

SeqHas(seq, x) == \E i \in 1..Len(seq) : seq[i] = x

(***************************************************************************)
(* Device resolution.                                                      *)
(***************************************************************************)
IsCategory(device_model) == \E i \in 1..Len(Devices) : Devices[i].name = device_model

Category(name) == Devices[CHOOSE i \in 1..Len(Devices) : Devices[i].name = name]

HasVariant(cat, name) == \E j \in 1..Len(cat.variants) : cat.variants[j].name = name

VariantOf(cat, name) ==
  cat.variants[CHOOSE j \in 1..Len(cat.variants) : cat.variants[j].name = name]

Resolved(category, variant, config) ==
  [category |-> category, variant |-> variant, config |-> config]

\* find_device_config: (category, variant, variant_config), None where unresolved.
\* A family named as the device: its only variant, or none chosen yet.
ResolveCategory(cat) ==
  IF Len(cat.variants) = 0 THEN Resolved(None, None, NoConfig)
  ELSE IF Len(cat.variants) = 1
       THEN Resolved(cat.name, cat.variants[1].name, cat.variants[1].config)
       ELSE Resolved(cat.name, None, NoConfig)

\* The first family, in registry order, that has the variant.
OwnerOf(device_model) ==
  Devices[CHOOSE k \in 1..Len(Devices) :
            /\ HasVariant(Devices[k], device_model)
            /\ \A m \in 1..(k - 1) : ~HasVariant(Devices[m], device_model)]

ResolveVariant(cat, device_model) ==
  Resolved(cat.name, device_model, VariantOf(cat, device_model).config)

\* Mutant of find_device_config: the variants are looked up before the families.
find_device_config_variant_first(device_model) ==
  IF \E i \in 1..Len(Devices) : HasVariant(Devices[i], device_model)
  THEN ResolveVariant(OwnerOf(device_model), device_model)
  ELSE IF IsCategory(device_model) THEN ResolveCategory(Category(device_model))
       ELSE Resolved(None, None, NoConfig)

find_device_config(device_model) ==
  IF IsCategory(device_model) THEN ResolveCategory(Category(device_model))
  ELSE IF \E i \in 1..Len(Devices) : HasVariant(Devices[i], device_model)
       THEN ResolveVariant(OwnerOf(device_model), device_model)
       ELSE Resolved(None, None, NoConfig)

\* The answer typed at a prompt: a line of text, or an interrupt (Ctrl-C).
Interrupt == <<"^C">>

\* prompt_variant_selection: (variant, variant_config), None when nothing is chosen.
NoVariant == [variant |-> None, config |-> NoConfig]

\* The entry of a numbered list that the parsed answer n picks, if any.
InRange(n, count) == n.ok /\ 0 <= n.val - 1 /\ n.val - 1 < count

PickVariant(variants, n) ==
  IF InRange(n, Len(variants))
  THEN [variant |-> variants[n.val].name, config |-> variants[n.val].config]
  ELSE NoVariant

prompt_variant_selection(category, choice) ==
  IF choice = Interrupt THEN NoVariant
  ELSE PickVariant(Category(category).variants, ParseDec(Strip(choice)))

\* The session fields that setup_device writes.
NoParams == <<"None">>
USB_PARAMS == <<"-u", "0x1FC9,0x0020">>

Session(category, variant, config, interface, params) ==
  [device_category |-> category, device_variant |-> variant, variant_config |-> config,
   interface |-> interface, connection_params |-> params]

NewSession == Session(None, None, NoConfig, None, NoParams)

\* Mutant of SelectInterface: the only interface is taken before the default.
SelectInterfaceSingleFirst(cat, interface) ==
  IF interface # None THEN interface
  ELSE IF Len(cat.interfaces) = 1 THEN cat.interfaces[1]
  ELSE IF cat.default_interface # None THEN cat.default_interface
  ELSE None

\* The interface setup_device settles on: the one given, else the default, else
\* the only one; None when several are supported and none is the default.
SelectInterface(cat, interface) ==
  IF interface # None THEN interface
  ELSE IF cat.default_interface # None THEN cat.default_interface
  ELSE IF Len(cat.interfaces) = 1 THEN cat.interfaces[1]
  ELSE None

\* setup_device on session sess: [ret, session], the value returned and the
\* session fields as the call leaves them. serial_port None and baudrate 0 stand
\* for an omitted option (both are falsy in the code's tests).
\* The end of setup_device, from "Save configuration" on: the four fields are
\* written before the connection parameters are settled.
SaveConfiguration(sess, category, picked, iface, serial_port, baudrate) ==
  IF iface = "usb"
  THEN [ret |-> TRUE,
        session |-> Session(category, picked.variant, picked.config, iface, USB_PARAMS)]
  ELSE IF serial_port = None
       THEN [ret |-> FALSE,
             session |-> Session(category, picked.variant, picked.config, iface,
                                 sess.connection_params)]
       ELSE [ret |-> TRUE,
             session |-> Session(category, picked.variant, picked.config, iface,
                                 <<"-p", serial_port,
                                   IF baudrate = 0 THEN DEFAULT_BAUDRATE ELSE baudrate>>)]

\* Mutant of SetupInterface: a helper that is set up already refuses the call.
SetupInterfaceOnce(sess, cat, picked, iface, serial_port, baudrate) ==
  IF picked.variant = None \/ sess.device_category # None
  THEN [ret |-> FALSE, session |-> sess]
  ELSE IF iface = None \/ ~SeqHas(cat.interfaces, iface)
       THEN [ret |-> FALSE, session |-> sess]
       ELSE SaveConfiguration(sess, cat.name, picked, iface, serial_port, baudrate)

\* setup_device once the variant is settled: the interface is selected and
\* validated, then the configuration is saved.
SetupInterface(sess, cat, picked, iface, serial_port, baudrate) ==
  IF picked.variant = None THEN [ret |-> FALSE, session |-> sess]
  ELSE IF iface = None \/ ~SeqHas(cat.interfaces, iface)
       THEN [ret |-> FALSE, session |-> sess]
       ELSE SaveConfiguration(sess, cat.name, picked, iface, serial_port, baudrate)

\* Mutant of SetupFound: the session is cleared when the device is unknown.
SetupFoundResets(sess, found, interface, serial_port, baudrate, choice) ==
  IF found.category = None THEN [ret |-> FALSE, session |-> NewSession]
  ELSE SetupInterface(sess, Category(found.category),
                      IF found.variant = None
                      THEN prompt_variant_selection(found.category, choice)
                      ELSE [variant |-> found.variant, config |-> found.config],
                      SelectInterface(Category(found.category), interface),
                      serial_port, baudrate)

\* setup_device once the identifier is looked up.
SetupFound(sess, found, interface, serial_port, baudrate, choice) ==
  IF found.category = None THEN [ret |-> FALSE, session |-> sess]
  ELSE SetupInterface(sess, Category(found.category),
                      IF found.variant = None
                      THEN prompt_variant_selection(found.category, choice)
                      ELSE [variant |-> found.variant, config |-> found.config],
                      SelectInterface(Category(found.category), interface),
                      serial_port, baudrate)

setup_device(sess, device_model, interface, serial_port, baudrate, choice) ==
  SetupFound(sess, find_device_config(device_model), interface, serial_port, baudrate,
             choice)

(***************************************************************************)
(* Flash geometry lookups on the session's variant configuration.          *)
(***************************************************************************)
\* "not self.variant_config or 'flash_configs' not in self.variant_config"
NoFlashConfigs(vc) == ~vc.present \/ ~vc.has_flash_configs

\* get_fcb_file_for_flash_size; None when the variant declares no such geometry.
get_fcb_file_for_flash_size(vc, flash_size) ==
  IF NoFlashConfigs(vc) THEN None
  ELSE IF \E i \in 1..Len(vc.flash_configs) : vc.flash_configs[i].size = flash_size
       THEN vc.flash_configs[CHOOSE i \in 1..Len(vc.flash_configs) :
                               vc.flash_configs[i].size = flash_size].fcb_file
       ELSE None

\* Mutant of get_default_flash_size: the first declared geometry, flagged or not.
get_default_flash_size_first(vc) ==
  IF NoFlashConfigs(vc) \/ Len(vc.flash_configs) = 0 THEN None
  ELSE vc.flash_configs[1].size

\* get_default_flash_size: the first geometry flagged default, else the first
\* declared, else None.
get_default_flash_size(vc) ==
  IF NoFlashConfigs(vc) THEN None
  ELSE IF \E i \in 1..Len(vc.flash_configs) : vc.flash_configs[i].default
       THEN vc.flash_configs[CHOOSE i \in 1..Len(vc.flash_configs) :
                               /\ vc.flash_configs[i].default
                               /\ \A j \in 1..(i - 1) : ~vc.flash_configs[j].default].size
       ELSE IF Len(vc.flash_configs) > 0 THEN vc.flash_configs[1].size
       ELSE None

\* get_flash_size_options: the declared geometry names, in order.
get_flash_size_options(vc) ==
  IF NoFlashConfigs(vc) THEN <<>>
  ELSE [i \in 1..Len(vc.flash_configs) |-> vc.flash_configs[i].size]

\* The part of initialize_flash before its first command: the blob file to
\* use, or None when initialize_flash returns False without any command.
BlobOnDisk(fcb_filename) ==
  IF fcb_filename = None \/ fcb_filename \notin FcbFilesOnDisk THEN None ELSE fcb_filename

InitBlob(vc, flash_size) ==
  IF ~vc.present THEN None
  ELSE BlobOnDisk(get_fcb_file_for_flash_size(
                    vc, IF flash_size = None THEN get_default_flash_size(vc) ELSE flash_size))

\* prompt_flash_region_selection: a region key, or None (cancelled).
PickRegion(n) ==
  IF ~n.ok THEN None
  ELSE IF InRange(n, Len(FLASH_REGIONS)) THEN FLASH_REGIONS[n.val].key
  ELSE "NS"

\* Mutant of prompt_flash_region_selection: an interrupt selects the default
\* region.
prompt_flash_region_interrupt_default(choice) ==
  IF choice = Interrupt \/ Strip(choice) = <<>> THEN "NS"
  ELSE PickRegion(ParseDec(Strip(choice)))

prompt_flash_region_selection(choice) ==
  IF choice = Interrupt THEN None
  ELSE IF Strip(choice) = <<>> THEN "NS"
  ELSE PickRegion(ParseDec(Strip(choice)))

\* prompt_flash_size_selection: [bytes, name]; bytes = 0 stands for None.
NoSize == [bytes |-> 0, name |-> None]

RECURSIVE DecDigitsOf(_)
DecDigitsOf(n) ==
  IF n < 10 THEN <<HexUpper[n + 1]>> ELSE Append(DecDigitsOf(n \div 10), HexUpper[(n % 10) + 1])

NamedSize(size_str) ==
  IF size_str = None THEN NoSize
  ELSE [bytes |-> convert_flash_size_to_bytes(size_str), name |-> size_str]

PickSize(options, n) == IF InRange(n, Len(options)) THEN NamedSize(options[n.val]) ELSE NoSize

\* The prompt once the options are listed and the answer is read and stripped.
SizeAnswer(vc, options, choice) ==
  IF choice = <<>> \/ choice = DecDigitsOf(Len(options) + 1)
  THEN NamedSize(get_default_flash_size(vc))
  ELSE PickSize(options, ParseDec(choice))

SizeOptionsPrompt(vc, options, choice) ==
  IF options = <<>> \/ choice = Interrupt THEN NoSize
  ELSE SizeAnswer(vc, options, Strip(choice))

prompt_flash_size_selection(vc, choice) ==
  SizeOptionsPrompt(vc, get_flash_size_options(vc), choice)

\* The geometry name erase_flash derives from an explicit size: the name that
\* FLASH_SIZE_MAPPING gives that byte count, else None.
SizeNameOf(size_bytes) ==
  IF \E i \in 1..Len(FLASH_SIZE_BYTES) : FLASH_SIZE_BYTES[i] = size_bytes
  THEN FLASH_SIZE_NAMES[CHOOSE i \in 1..Len(FLASH_SIZE_BYTES) : FLASH_SIZE_BYTES[i] = size_bytes]
  ELSE None

(***************************************************************************)
(* The state of one run of the program.                                    *)
(***************************************************************************)
VARIABLES
  self,        \* the BlhostHelper session fields that setup_device writes
  setup_call,  \* the last setup_device call: its arguments, the session before it, its
               \* result (main()'s call records its result alone)
  pc,          \* where the program is
  op,          \* the operation running: "erase", "write", "read", "test", "init"
  loc,         \* the running operation's arguments and local variables
  cmds,        \* the external commands issued by the running operation, in order
  progress,    \* the progress reported before each erase chunk: 100 * num / den percent
  ret,         \* what the operation returned: "none" (not yet), "true", "false", "raise"
  hex_data,    \* the read-memory output handed to _parse_hex_to_file
  binary_data, \* the bytes _parse_hex_to_file decoded from it
  out_file,    \* the output file of read_flash
  exit_code    \* the process exit code; -1 while running

vars ==
  <<self, setup_call, pc, op, loc, cmds, progress, ret, hex_data, binary_data, out_file,
    exit_code>>

NoneS == <<"None">>

NoSetupCall ==
  [called |-> FALSE, device_model |-> None, interface |-> None, serial_port |-> None,
   baudrate |-> 0, choice |-> NoneS, before |-> NewSession, ret |-> FALSE,
   found |-> Resolved(None, None, NoConfig), asked |-> FALSE,
   repeats |-> FALSE, prev_ret |-> FALSE]

\* What the blhost process of test_connection gave: a timeout (or a process
\* that could not be run), an interrupt, or a return code and an output. The
\* output is blank, text that is no JSON, or a JSON value: j is its type, truthy
\* whether Python takes it for true; of an object, status is "absent", "zero"
\* (a dict whose "value" is 0), "nonzero" (a dict with another value) or
\* "notdict"; response is "absent", "empty", "word" (a list of integers) or
\* "text" (a list whose first element is no integer); returncode is "absent",
\* "zero" or "nonzero" (a key of that name in the JSON object).
JsonValue(j, truthy, status, response, returncode) ==
  [j |-> j, truthy |-> truthy, status |-> status, response |-> response,
   returncode |-> returncode]
NoJson == JsonValue("none", FALSE, "absent", "absent", "absent")
JsonValues ==
  {JsonValue("object", TRUE, st, rs, "absent") :
     st \in {"zero", "nonzero", "notdict"}, rs \in {"absent", "empty", "word", "text"}}
    \cup {JsonValue("object", TRUE, "absent", rs, rc) :
            rs \in {"absent", "word"}, rc \in {"zero", "nonzero"}}
    \cup {JsonValue("object", TRUE, "absent", "word", "absent"),
          JsonValue("object", FALSE, "absent", "absent", "absent"),
          JsonValue("array", TRUE, "absent", "absent", "absent"),
          JsonValue("array", FALSE, "absent", "absent", "absent"),
          JsonValue("number", TRUE, "absent", "absent", "absent"),
          JsonValue("null", FALSE, "absent", "absent", "absent")}
Reply(kind, returncode, out, json) ==
  [kind |-> kind, returncode |-> returncode, out |-> out, json |-> json]
NoReply == Reply("none", 0, "blank", NoJson)
Replies ==
  {Reply("timeout", 0, "blank", NoJson), Reply("interrupt", 0, "blank", NoJson)}
    \cup {Reply("result", rc, out, NoJson) : rc \in {0, 1}, out \in {"blank", "text"}}
    \cup {Reply("result", rc, "json", v) : rc \in {0, 1}, v \in JsonValues}

NoLoc ==
  [start_addr |-> NoneS, start_int |-> 0, size_bytes |-> 0, flash_size_str |-> None,
   addr |-> 0, remaining |-> 0, init_i |-> 0, fcb_file |-> None,
   arg_addr |-> NoneS, write_addr |-> NoneS, arg_size |-> [t |-> "none", v |-> 0, s |-> NoneS],
   region_answer |-> NoneS, size_answer |-> NoneS,
   firmware |-> [path |-> None, exists |-> FALSE, size |-> 0],
   read_size |-> NoneS, output_file |-> None, reply |-> NoReply,
   config_loaded |-> TRUE]

NoFile == [written |-> FALSE, path |-> None, data |-> <<>>]

Init ==
  /\ self = NewSession
  /\ setup_call = NoSetupCall
  /\ pc = "boot"
  /\ op = "none"
  /\ loc = NoLoc
  /\ cmds = <<>>
  /\ progress = <<>>
  /\ ret = "none"
  /\ hex_data = NoneS
  /\ binary_data = <<>>
  /\ out_file = NoFile
  /\ exit_code = -1

(***************************************************************************)
(* Inputs.                                                                 *)
(***************************************************************************)
\* Identifiers: families, variants, a family without variants, a family that
\* has a variant of its own name, a family whose default interface it does not
\* support, and an identifier that the registry does not know.
DeviceModels ==
  {"FCM363X", "FCM363XAA", "FGMH63X", "FCM363XL", "FCME63X", "FCME63XAB", "FCMA62N",
   "FCM365X", "FCMB62N", "RW612"}
InterfaceArgs == {None, "usb", "uart"}
\* The -p and -b options: none, a port alone, a port and a baud rate.
SerialArgs ==
  {[port |-> None, baudrate |-> 0], [port |-> "COM3", baudrate |-> 0],
   [port |-> "COM3", baudrate |-> 115200]}
\* Answers typed at the variant prompt.
VariantAnswers == {<<>>, <<"1">>, <<"2">>, <<"3">>, <<"x">>, Interrupt}
\* Answers typed at a numbered prompt.
PromptAnswers == {<<>>, <<"1">>, <<"2">>, <<"3">>, <<"9">>, <<"x">>, <<" ", "2">>, Interrupt}

NoPrefix(s) == SubSeq(s, 3, Len(s))
\* Explicit addresses: with and without the 0x prefix, and one that is no number.
AddrArgs ==
  {Hex08X(NS_start_addr), NoPrefix(Hex08X(NS_start_addr)), Hex08X(S_start_addr),
   Hex08X(NS_read_addr), <<"0", "x", "G">>}

\* Explicit sizes in bytes: around every whole number of blocks up to MaxBlocks,
\* the byte counts of two named geometries, and two sizes that are not positive.
SizeInts ==
  {k * MAX_ERASE_BLOCK + d : k \in 0..MaxBlocks, d \in {-1, 0, 1}}
    \cup {convert_flash_size_to_bytes("4M"), convert_flash_size_to_bytes("8M")}
IntArg(v) == [t |-> "int", v |-> v, s |-> NoneS]
StrArg(str) == [t |-> "str", v |-> 0, s |-> str]
NoArg == [t |-> "none", v |-> 0, s |-> NoneS]
SizeArgs ==
  {IntArg(v) : v \in SizeInts}
    \cup {StrArg(HexX(MAX_ERASE_BLOCK + 1)), StrArg(DecDigitsOf(2 * MAX_ERASE_BLOCK)),
          StrArg(<<"0">>), StrArg(<<"-", "1">>), StrArg(<<"0", "1", "0">>), StrArg(<<"G">>)}

\* Firmware files: a missing one, and files of every size above (0 = empty).
Firmwares ==
  {[path |-> "missing.bin", exists |-> FALSE, size |-> 0]}
    \cup {[path |-> "firmware.bin", exists |-> TRUE, size |-> v] : v \in {x \in SizeInts : x >= 0}}

\* What one run_command(cmd, use_json=False) gives its caller: a result with
\* return code 0, a result with a non-zero return code, None (timeout, or the
\* subprocess could not be run), or a KeyboardInterrupt that passes through.
Outcomes == {"rc0", "rc1", "none", "interrupt"}
\* Mutants of Failed: a result of None taken for a success, and a non-zero
\* return code taken for a success.
FailedOnlyNonZero(outcome) == outcome = "rc1"
FailedOnlyNone(outcome) == outcome = "none"

\* "not result or result.get('returncode', 1) != 0"
Failed(outcome) == outcome \in {"rc1", "none"}

\* Texts made of at most n pieces: tokens, separators, a trailer mark and a
\* character that is no hex digit.
Pieces == {<<"0", "0">>, <<"0", "A">>, <<"f">>, <<" ">>, <<"\n">>, <<"{">>, <<"G">>}
RECURSIVE SeqsUpTo(_, _)
SeqsUpTo(S, n) ==
  IF n = 0 THEN {<<>>}
  ELSE LET shorter == SeqsUpTo(S, n - 1) IN
       shorter \cup {Append(q, x) : q \in shorter, x \in S}
Texts(n) == {Concat(q) : q \in SeqsUpTo(Pieces, n)}

Cmd(line, name, a1, a2, a3, outcome) ==
  [line |-> line, name |-> name, a1 |-> a1, a2 |-> a2, a3 |-> a3, outcome |-> outcome]

(***************************************************************************)
(* setup_device, as a call on the helper and as main() makes it.           *)
(***************************************************************************)
\* Whether setup_device asks for a variant: a family with several variants.
NeedsChoice(found) == found.category # None /\ found.variant = None
AsksVariant(device_model) == NeedsChoice(find_device_config(device_model))

\* Whether the call has the arguments (and the answer) of the call before it.
SameCall(device_model, interface, serial_port, baudrate, choice) ==
  /\ setup_call.called
  /\ setup_call.device_model = device_model
  /\ setup_call.interface = interface
  /\ setup_call.serial_port = serial_port
  /\ setup_call.baudrate = baudrate
  /\ setup_call.choice = choice

\* The record of a call: its arguments, the session before it, what
\* find_device_config gave, whether the variant prompt was shown, the value
\* returned, and whether it repeats the call before it (whose value is then kept).
SetupCall(device_model, interface, serial_port, baudrate, choice, result) ==
  [called |-> TRUE, device_model |-> device_model, interface |-> interface,
   serial_port |-> serial_port, baudrate |-> baudrate, choice |-> choice,
   before |-> self, ret |-> result.ret,
   found |-> find_device_config(device_model), asked |-> AsksVariant(device_model),
   repeats |-> SameCall(device_model, interface, serial_port, baudrate, choice),
   prev_ret |-> SameCall(device_model, interface, serial_port, baudrate, choice)
                  /\ setup_call.ret]

\* A call of setup_device on the helper, in whatever state earlier calls left it.
SetupDevice ==
  /\ pc = "boot"
  /\ \E device_model \in DeviceModels, interface \in InterfaceArgs, serial \in SerialArgs :
       \E choice \in IF AsksVariant(device_model) THEN VariantAnswers ELSE {NoneS} :
         LET r == setup_device(self, device_model, interface, serial.port, serial.baudrate,
                               choice)
         IN /\ self' = r.session
            /\ setup_call' =
                 SetupCall(device_model, interface, serial.port, serial.baudrate, choice, r)
  /\ UNCHANGED <<pc, op, loc, cmds, progress, ret, hex_data, binary_data, out_file, exit_code>>

\* main(): the helper is new, setup_device runs once, and its failure ends the
\* process with exit code 1.
MainSetup ==
  /\ pc = "boot"
  /\ ~setup_call.called
  /\ \E device_model \in DeviceModels, interface \in InterfaceArgs, serial \in SerialArgs :
       \E choice \in IF AsksVariant(device_model) THEN VariantAnswers ELSE {NoneS} :
         LET r == setup_device(self, device_model, interface, serial.port, serial.baudrate,
                               choice)
         IN /\ self' = r.session
            /\ setup_call' = [NoSetupCall EXCEPT !.called = TRUE, !.ret = r.ret]
            /\ pc' = IF r.ret THEN "ready" ELSE "exit"
            /\ exit_code' = IF r.ret THEN -1 ELSE 1
  /\ UNCHANGED <<op, loc, cmds, progress, ret, hex_data, binary_data, out_file>>

(***************************************************************************)
(* run_command with use_json=True, and test_connection.                    *)
(***************************************************************************)
\* What run_command returns: None, the parsed JSON value, or the dictionary of
\* return code and output.
ResultNone == [t |-> "none", returncode |-> 0, json |-> NoJson]
ResultDict(returncode) == [t |-> "dict", returncode |-> returncode, json |-> NoJson]
ResultJson(json) == [t |-> "json", returncode |-> 0, json |-> json]

run_command_json(reply) ==
  IF reply.kind # "result" THEN ResultNone
  ELSE IF reply.returncode = 0 /\ reply.out = "json" THEN ResultJson(reply.json)
  ELSE ResultDict(reply.returncode)

\* The branch of test_connection for a JSON object with a "status" key.
StatusBranch(json) ==
  IF json.status # "zero" THEN "false"
  ELSE IF json.response = "text" THEN "raise"
  ELSE "true"

\* Mutant of TestResult: a result without "status" is a success whatever the
\* return code.
TestResultNoReturnCode(result) ==
  IF result.t = "none" THEN "false"
  ELSE IF result.t = "dict" THEN "true"
  ELSE IF ~result.json.truthy THEN "false"
  ELSE IF result.json.j # "object" THEN "raise"
  ELSE IF result.json.status # "absent" THEN StatusBranch(result.json)
  ELSE "true"

\* test_connection on the result of run_command: "true", "false", or "raise"
\* (result.get on a value that is no dictionary, or the version formatted from
\* a response that is no integer).
TestResult(result) ==
  IF result.t = "none" THEN "false"
  ELSE IF result.t = "dict" THEN IF result.returncode = 0 THEN "true" ELSE "false"
  ELSE IF ~result.json.truthy THEN "false"
  ELSE IF result.json.j # "object" THEN "raise"
  ELSE IF result.json.status # "absent" THEN StatusBranch(result.json)
  ELSE IF result.json.returncode = "zero" THEN "true" ELSE "false"

ReplyOutcome(reply) ==
  IF reply.kind = "timeout" THEN "none"
  ELSE IF reply.kind = "interrupt" THEN "interrupt"
  ELSE IF reply.returncode = 0 THEN "rc0" ELSE "rc1"

\* test_connection(): one get-property command and the value returned.
TestConnection ==
  /\ pc = "ready"
  /\ \E reply \in Replies :
       /\ loc' = [NoLoc EXCEPT !.reply = reply]
       /\ cmds' = <<Cmd(263, "get-property", <<"1">>, <<"0">>, "", ReplyOutcome(reply))>>
       /\ ret' = IF reply.kind = "interrupt" THEN "raise"
                 ELSE TestResult(run_command_json(reply))
  /\ op' = "test"
  /\ pc' = "done"
  /\ progress' = <<>>
  /\ UNCHANGED <<self, setup_call, hex_data, binary_data, out_file, exit_code>>

(***************************************************************************)
(* initialize_flash: the three commands, one step each.                    *)
(***************************************************************************)
SCRATCH_ADDR == <<"0", "x", "2", "0", "0", "0", "F", "0", "0", "0">>

\* Mutant of InitCommand: the blob is written before the marker word is filled.
InitCommandSwapped(i, fcb_file, outcome) ==
  IF i = 2 THEN Cmd(362, "fill-memory", SCRATCH_ADDR, <<"4">>, "0xC0100002 word", outcome)
  ELSE IF i = 1 THEN Cmd(362, "write-memory", SCRATCH_ADDR, <<>>, fcb_file, outcome)
  ELSE Cmd(362, "configure-memory", SCRATCH_ADDR, <<"9">>, "", outcome)

\* commands[i] of initialize_flash, with the outcome run_command gave.
InitCommand(i, fcb_file, outcome) ==
  IF i = 1 THEN Cmd(362, "fill-memory", SCRATCH_ADDR, <<"4">>, "0xC0100002 word", outcome)
  ELSE IF i = 2 THEN Cmd(362, "write-memory", SCRATCH_ADDR, <<>>, fcb_file, outcome)
  ELSE Cmd(362, "configure-memory", SCRATCH_ADDR, <<"9">>, "", outcome)

InitCommandCount == 3

\* Mutant of LastInitCommand: the loop ends before configure-memory.
LastInitCommandEarly(i) == i >= InitCommandCount - 1

\* Whether commands[i] is the last of the list.
LastInitCommand(i) == i = InitCommandCount

\* Where the caller of initialize_flash goes on when it returned True.
AfterInit(operation) ==
  IF operation = "read" THEN "read"
  ELSE IF operation = "init" THEN "done"
  ELSE "erase"

\* One iteration of the loop over commands.
InitStep ==
  /\ pc = "init"
  /\ \E outcome \in Outcomes :
       /\ cmds' = Append(cmds, InitCommand(loc.init_i, loc.fcb_file, outcome))
       /\ IF outcome = "interrupt"
          THEN /\ pc' = "done" /\ ret' = "raise" /\ loc' = loc
          ELSE IF Failed(outcome)
          THEN /\ pc' = "done" /\ ret' = "false" /\ loc' = loc
          ELSE IF ~LastInitCommand(loc.init_i)
          THEN /\ pc' = "init" /\ ret' = ret
               /\ loc' = [loc EXCEPT !.init_i = loc.init_i + 1]
          ELSE /\ pc' = AfterInit(op)
               /\ ret' = IF op = "init" THEN "true" ELSE ret
               /\ loc' = loc
  /\ UNCHANGED <<self, setup_call, op, progress, hex_data, binary_data, out_file, exit_code>>

\* initialize_flash(flash_size) called on its own.
InitializeFlash ==
  /\ pc = "ready"
  /\ \E flash_size \in {None, "4M", "8M", "16M", "2M"} :
       LET blob == InitBlob(self.variant_config, flash_size) IN
       /\ op' = "init"
       /\ loc' = [NoLoc EXCEPT !.flash_size_str = flash_size, !.fcb_file = blob,
                               !.init_i = IF blob = None THEN 0 ELSE 1]
       /\ pc' = IF blob = None THEN "done" ELSE "init"
       /\ ret' = IF blob = None THEN "false" ELSE "none"
  /\ cmds' = <<>>
  /\ progress' = <<>>
  /\ UNCHANGED <<self, setup_call, hex_data, binary_data, out_file, exit_code>>

(***************************************************************************)
(* erase_flash.                                                            *)
(***************************************************************************)
Min(a, b) == IF a < b THEN a ELSE b

\* Mutant of RegionAddress: the region's read address is taken for its base.
RegionAddressRead(region_key) ==
  IF region_key = None THEN [st |-> "false", start_addr |-> NoneS, start_int |-> 0]
  ELSE [st |-> "go", start_addr |-> Hex08X(Region(region_key).read_addr),
        start_int |-> Region(region_key).read_addr]

\* The address part of erase_flash (the region prompt, or the given address
\* with 0x put in front when it lacks it): st is "go", "false" (return False)
\* or "raise" (int() raised ValueError).
RegionAddress(region_key) ==
  IF region_key = None THEN [st |-> "false", start_addr |-> NoneS, start_int |-> 0]
  ELSE [st |-> "go", start_addr |-> Hex08X(Region(region_key).start_addr),
        start_int |-> Region(region_key).start_addr]

GivenAddress(prefixed, n) ==
  IF n.ok THEN [st |-> "go", start_addr |-> prefixed, start_int |-> n.val]
  ELSE [st |-> "raise", start_addr |-> prefixed, start_int |-> 0]

\* "if not start_addr.startswith('0x'): start_addr = f'0x{start_addr}'"
WithPrefix(start_addr) ==
  IF StartsWith(start_addr, <<"0", "x">>) THEN start_addr ELSE <<"0", "x">> \o start_addr

EraseAddress(start_addr, region_choice) ==
  IF start_addr = NoneS THEN RegionAddress(prompt_flash_region_selection(region_choice))
  ELSE GivenAddress(WithPrefix(start_addr), ParseHex16(WithPrefix(start_addr)))

\* Whether erase_flash reaches the size prompt's input() for this variant.
AsksSize(vc, size) == size.t = "none" /\ Len(get_flash_size_options(vc)) > 1

\* The size part of erase_flash: the geometry the variant declares alone, the
\* size prompt, or the given size; then the test for a positive size.
\* The only declared geometry, selected without a prompt; an unmapped name has
\* no byte count, and formatting it for the message raises TypeError.
AutoSize(picked) ==
  [st |-> IF picked.bytes = 0 THEN "raise" ELSE "go", bytes |-> picked.bytes,
   name |-> picked.name]

PromptedSize(picked) ==
  [st |-> IF picked.bytes = 0 THEN "false" ELSE "go", bytes |-> picked.bytes,
   name |-> picked.name]

\* int(size, 0) of a size given as text, and the geometry named after it.
ParsedSize(n) ==
  [st |-> IF n.ok THEN "go" ELSE "raise", bytes |-> n.val, name |-> SizeNameOf(n.val)]

ChosenSize(vc, options, size, size_choice) ==
  IF size.t = "none"
  THEN IF Len(options) = 1 THEN AutoSize(NamedSize(options[1]))
       ELSE PromptedSize(prompt_flash_size_selection(vc, size_choice))
  ELSE IF size.t = "str" THEN ParsedSize(ParseInt0(size.s))
       ELSE [st |-> "go", bytes |-> size.v, name |-> SizeNameOf(size.v)]

\* Mutant of PositiveSize: only a negative size is refused.
NonNegativeSize(chosen) ==
  IF chosen.st = "go" /\ chosen.bytes < 0
  THEN [st |-> "false", bytes |-> chosen.bytes, name |-> chosen.name]
  ELSE chosen

\* "if size_bytes is None or size_bytes <= 0: return False"
PositiveSize(chosen) ==
  IF chosen.st = "go" /\ chosen.bytes <= 0
  THEN [st |-> "false", bytes |-> chosen.bytes, name |-> chosen.name]
  ELSE chosen

EraseSize(vc, size, size_choice) ==
  PositiveSize(ChosenSize(vc, get_flash_size_options(vc), size, size_choice))

\* erase_flash up to its first external command: the locals it has set, and
\* st = "go" when initialize_flash is about to issue its first command.
\* The locals once the address (a), the size (z) and the blob are settled.
PrepResult(a, z, blob) ==
  IF a.st # "go"
  THEN [st |-> a.st, start_addr |-> a.start_addr, start_int |-> a.start_int,
        size_bytes |-> 0, flash_size_str |-> None, fcb_file |-> None]
  ELSE IF z.st # "go" \/ blob = None
  THEN [st |-> IF z.st # "go" THEN z.st ELSE "false", start_addr |-> a.start_addr,
        start_int |-> a.start_int, size_bytes |-> z.bytes, flash_size_str |-> z.name,
        fcb_file |-> None]
  ELSE [st |-> "go", start_addr |-> a.start_addr, start_int |-> a.start_int,
        size_bytes |-> z.bytes, flash_size_str |-> z.name, fcb_file |-> blob]

PrepSized(vc, a, z) == PrepResult(a, z, InitBlob(vc, z.name))

ErasePrep(vc, start_addr, size, region_choice, size_choice) ==
  PrepSized(vc, EraseAddress(start_addr, region_choice), EraseSize(vc, size, size_choice))

EraseLoc(base, prep) ==
  [base EXCEPT !.start_addr = prep.start_addr, !.start_int = prep.start_int,
               !.size_bytes = prep.size_bytes, !.flash_size_str = prep.flash_size_str,
               !.fcb_file = prep.fcb_file,
               !.init_i = IF prep.st = "go" THEN 1 ELSE 0,
               !.addr = IF prep.st = "go" THEN prep.start_int ELSE 0,
               !.remaining = IF prep.st = "go" THEN prep.size_bytes ELSE 0]

\* erase_flash(start_addr, size) called by main() or on the helper.
EraseFlash ==
  /\ pc = "ready"
  /\ \E start_addr \in {NoneS} \cup AddrArgs, size \in {NoArg} \cup SizeArgs :
       \E region_choice \in IF start_addr = NoneS THEN PromptAnswers ELSE {NoneS} :
         \E size_choice \in IF /\ EraseAddress(start_addr, region_choice).st = "go"
                               /\ AsksSize(self.variant_config, size)
                            THEN PromptAnswers ELSE {NoneS} :
           LET prep == ErasePrep(self.variant_config, start_addr, size, region_choice,
                                 size_choice)
           IN /\ op' = "erase"
              /\ loc' = EraseLoc([NoLoc EXCEPT !.arg_addr = start_addr, !.arg_size = size,
                                               !.region_answer = region_choice,
                                               !.size_answer = size_choice], prep)
              /\ pc' = IF prep.st = "go" THEN "init" ELSE "done"
              /\ ret' = IF prep.st = "go" THEN "none" ELSE prep.st
  /\ cmds' = <<>>
  /\ progress' = <<>>
  /\ UNCHANGED <<self, setup_call, hex_data, binary_data, out_file, exit_code>>

\* Mutant of BlockSize: every chunk is a whole block.
BlockSizeNoMin(remaining) == MAX_ERASE_BLOCK

\* The size of the next chunk.
BlockSize(remaining) == Min(remaining, MAX_ERASE_BLOCK)

\* Mutant of Progress: the share that remains is reported.
ProgressOfRemaining(size_bytes, remaining) ==
  [num |-> remaining, den |-> size_bytes]

\* "((size_bytes - remaining) / size_bytes) * 100": the value is 100 * num / den.
Progress(size_bytes, remaining) ==
  [num |-> size_bytes - remaining, den |-> size_bytes]

EraseCommand(addr, block_size, outcome) ==
  Cmd(515, "flash-erase-region", Hex08X(addr), HexX(block_size), "0", outcome)

\* One iteration of the erase loop; the last one returns True to the caller.
EraseStep ==
  /\ pc = "erase"
  /\ loc.remaining > 0
  /\ LET block_size == BlockSize(loc.remaining) IN
     \E outcome \in Outcomes :
       /\ progress' = Append(progress, Progress(loc.size_bytes, loc.remaining))
       /\ cmds' = Append(cmds, EraseCommand(loc.addr, block_size, outcome))
       /\ IF outcome = "interrupt"
          THEN /\ pc' = "done" /\ ret' = "raise" /\ loc' = loc
          ELSE IF Failed(outcome)
          THEN /\ pc' = "done" /\ ret' = "false" /\ loc' = loc
          ELSE /\ loc' = [loc EXCEPT !.addr = loc.addr + block_size,
                                     !.remaining = loc.remaining - block_size]
               /\ pc' = IF loc.remaining - block_size > 0 THEN "erase"
                        ELSE IF op = "write" THEN "write" ELSE "done"
               /\ ret' = IF loc.remaining - block_size > 0 \/ op = "write" THEN ret
                         ELSE "true"
  /\ UNCHANGED <<self, setup_call, op, hex_data, binary_data, out_file, exit_code>>

(***************************************************************************)
(* write_firmware.                                                         *)
(***************************************************************************)
\* "if not start_addr": None and the empty string select the NS base address.
WriteAddress(start_addr) ==
  IF start_addr = NoneS \/ start_addr = <<>> THEN Hex08X(Region("NS").start_addr)
  ELSE start_addr

\* Mutant of FirmwareUsable: only the existence of the file is checked.
FirmwareExists(firmware) == firmware.exists

\* The preconditions of write_firmware: os.path.exists, then a size other
\* than 0.
FirmwareUsable(firmware) == firmware.exists /\ firmware.size # 0

\* write_firmware(firmware_path, start_addr) up to its first external command.
WriteFirmwareOf(firmwares, addrs) ==
  /\ pc = "ready"
  /\ \E firmware \in firmwares, start_addr \in addrs :
       LET target == WriteAddress(start_addr)
           prep == ErasePrep(self.variant_config, target, IntArg(firmware.size),
                             NoneS, NoneS)
           base == [NoLoc EXCEPT !.firmware = firmware]
       IN /\ op' = "write"
          /\ IF ~FirmwareUsable(firmware)
             THEN /\ loc' = base /\ pc' = "done" /\ ret' = "false"
             ELSE /\ loc' = EraseLoc([base EXCEPT !.write_addr = target,
                                                  !.arg_addr = target,
                                                  !.arg_size = IntArg(firmware.size)],
                                     prep)
                  /\ pc' = IF prep.st = "go" THEN "init" ELSE "done"
                  /\ ret' = IF prep.st = "go" THEN "none" ELSE prep.st
  /\ cmds' = <<>>
  /\ progress' = <<>>
  /\ UNCHANGED <<self, setup_call, hex_data, binary_data, out_file, exit_code>>

WriteFirmware == WriteFirmwareOf(Firmwares, {NoneS} \cup AddrArgs)

WriteCommand(start_addr, firmware_path, outcome) ==
  Cmd(548, "write-memory", start_addr, <<>>, firmware_path, outcome)

\* The write-memory command of write_firmware and the value returned.
WriteStep ==
  /\ pc = "write"
  /\ \E outcome \in Outcomes :
       /\ cmds' = Append(cmds, WriteCommand(loc.write_addr, loc.firmware.path, outcome))
       /\ ret' = IF outcome = "interrupt" THEN "raise"
                 ELSE IF outcome = "rc0" THEN "true" ELSE "false"
  /\ pc' = "done"
  /\ UNCHANGED <<self, setup_call, op, loc, progress, hex_data, binary_data, out_file, exit_code>>

(***************************************************************************)
(* read_flash and _parse_hex_to_file.                                      *)
(***************************************************************************)
DEFAULT_READ_SIZE == <<"0", "x", "2", "0", "0">>
ReadSizeArgs == {NoneS, <<"0", "x", "1", "0">>}
OutputArgs == {None, "dump.bin"}

\* read_flash(start_addr, size, output_file): initialize_flash() comes first.
ReadFlash(addrs, sizes, outputs) ==
  /\ pc = "ready"
  /\ \E start_addr \in addrs, size \in sizes, output_file \in outputs :
       LET blob == InitBlob(self.variant_config, None) IN
       /\ loc' = [NoLoc EXCEPT !.arg_addr = start_addr, !.read_size = size,
                               !.output_file = output_file, !.fcb_file = blob,
                               !.init_i = IF blob = None THEN 0 ELSE 1]
       /\ pc' = IF blob = None THEN "done" ELSE "init"
       /\ ret' = IF blob = None THEN "false" ELSE "none"
  /\ op' = "read"
  /\ cmds' = <<>>
  /\ progress' = <<>>
  /\ UNCHANGED <<self, setup_call, hex_data, binary_data, out_file, exit_code>>

\* The address read_flash reads at: the NS read address by default, and 0x put
\* in front of an address that lacks it.
ReadAddress(start_addr) ==
  LET given == IF start_addr = NoneS \/ start_addr = <<>>
               THEN Hex08X(Region("NS").read_addr) ELSE start_addr
  IN IF StartsWith(given, <<"0", "x">>) THEN given ELSE <<"0", "x">> \o given

ReadSize(size) == IF size = NoneS \/ size = <<>> THEN DEFAULT_READ_SIZE ELSE size

\* The output path: the one given, or a timestamped name under output/.
OutputPath(output_file) == IF output_file = None THEN "output/<auto>.bin" ELSE output_file

ReadCommand(start_addr, size, outcome) ==
  Cmd(583, "read-memory", start_addr, size, "", outcome)

\* _parse_hex_to_file: the value returned and the file as the call leaves it.
\* can_write = FALSE stands for open() or write() raising, which the function
\* catches.
\* Mutant of SaveFile: the file is written without the test for no data.
SaveFileAlways(data, output_path, file, can_write) ==
  IF ~can_write THEN [ret |-> FALSE, binary_data |-> data, file |-> file]
  ELSE [ret |-> TRUE, binary_data |-> data,
        file |-> [written |-> TRUE, path |-> output_path, data |-> data]]

\* The end of _parse_hex_to_file: no data is a failure, else the file is saved.
SaveFile(data, output_path, file, can_write) ==
  IF data = <<>> \/ ~can_write THEN [ret |-> FALSE, binary_data |-> data, file |-> file]
  ELSE [ret |-> TRUE, binary_data |-> data,
        file |-> [written |-> TRUE, path |-> output_path, data |-> data]]

parse_hex_to_file(hex_output, output_path, file, can_write) ==
  SaveFile(DecodeHex(hex_output), output_path, file, can_write)

\* The read-memory command, the parse of its output and the value returned.
ReadStep(stdouts) ==
  /\ pc = "read"
  /\ \E outcome \in Outcomes :
       /\ cmds' = Append(cmds, ReadCommand(ReadAddress(loc.arg_addr),
                                           ReadSize(loc.read_size), outcome))
       /\ IF outcome = "rc0"
          THEN \E stdout \in stdouts, can_write \in BOOLEAN :
                 LET parsed == parse_hex_to_file(stdout, OutputPath(loc.output_file),
                                                 out_file, can_write)
                 IN /\ hex_data' = stdout
                    /\ binary_data' = parsed.binary_data
                    /\ out_file' = parsed.file
                    /\ ret' = IF parsed.ret THEN "true" ELSE "false"
          ELSE /\ ret' = IF outcome = "interrupt" THEN "raise" ELSE "false"
               /\ UNCHANGED <<hex_data, binary_data, out_file>>
  /\ pc' = "done"
  /\ UNCHANGED <<self, setup_call, op, loc, progress, exit_code>>

(***************************************************************************)
(* A stub programmer, for write_firmware followed by read_flash on the     *)
(* same helper: it keeps the bytes of the last file written, at the        *)
(* address it was given, and echoes what it keeps as a hex dump.           *)
(***************************************************************************)
\* Small firmware files and what they hold.
RtPaths == {"a.bin", "ab.bin", "abc.bin", "ff.bin"}
FileBytes(path) ==
  IF path = "a.bin" THEN <<10>>
  ELSE IF path = "ab.bin" THEN <<0, 171>>
  ELSE IF path = "abc.bin" THEN <<171, 0, 10>>
  ELSE <<255, 255>>
RtFirmwares == {[path |-> f, exists |-> TRUE, size |-> Len(FileBytes(f))] : f \in RtPaths}
\* Addresses given with and without 0x.
RtAddrs ==
  {NoneS, Hex08X(NS_start_addr), Hex08X(S_start_addr), NoPrefix(Hex08X(NS_start_addr)),
   NoPrefix(Hex08X(S_start_addr))}

\* A number on the programmer's command line: hexadecimal after 0x, decimal
\* otherwise.
StubNumber(text) == ParseUnsigned0(text)

StubAccepts(c) ==
  IF c.line = 515 \/ c.line = 583 THEN StubNumber(c.a1).ok /\ StubNumber(c.a2).ok
  ELSE IF c.line = 548 THEN StubNumber(c.a1).ok
  ELSE TRUE

\* The stub answers every command at once: code 0 if it can read it, else 1.
StubReplied ==
  cmds # <<>> =>
    cmds[Len(cmds)].outcome = IF StubAccepts(cmds[Len(cmds)]) THEN "rc0" ELSE "rc1"

\* What the stub keeps after the commands cs: the last file written and its
\* address, unless an erase has covered that address since.
NoStub == [addr |-> -1, path |-> None]
StubAfter(mem, c) ==
  IF c.outcome # "rc0" THEN mem
  ELSE IF c.line = 548 THEN [addr |-> StubNumber(c.a1).val, path |-> c.a3]
  ELSE IF c.line = 515 /\ StubNumber(c.a1).val <= mem.addr
                      /\ mem.addr < StubNumber(c.a1).val + StubNumber(c.a2).val
       THEN NoStub
  ELSE mem

RECURSIVE StubMemory(_)
StubMemory(cs) ==
  IF cs = <<>> THEN NoStub ELSE StubAfter(StubMemory(SubSeq(cs, 1, Len(cs) - 1)), cs[Len(cs)])

\* The byte the stub holds at an address: erased flash reads as 0xFF.
StubByte(mem, address) ==
  IF mem.addr >= 0 /\ mem.addr <= address /\ address < mem.addr + Len(FileBytes(mem.path))
  THEN FileBytes(mem.path)[address - mem.addr + 1]
  ELSE 255

\* The dump of read-memory: two hex digits a byte, 16 bytes a line.
RECURSIVE HexDump(_, _)
HexDump(bytes, i) ==
  IF i > Len(bytes) THEN <<>>
  ELSE <<HexLower[(bytes[i] \div 16) + 1], HexLower[(bytes[i] % 16) + 1]>>
         \o (IF i % 16 = 0 THEN <<"\n">> ELSE <<" ">>) \o HexDump(bytes, i + 1)

StubOutput(mem, start_addr, size) ==
  IF ~StubNumber(start_addr).ok \/ ~StubNumber(size).ok THEN <<>>
  ELSE HexDump([i \in 1..StubNumber(size).val |->
                  StubByte(mem, StubNumber(start_addr).val + i - 1)], 1)

\* read_flash(start_addr, size) called on the helper after write_firmware
\* returned True; the file written stays on record.
ReadBack ==
  /\ pc = "done" /\ op = "write" /\ ret = "true"
  /\ \E start_addr \in RtAddrs, size \in {<<"1">>, DecDigitsOf(loc.firmware.size)} :
       LET blob == InitBlob(self.variant_config, None) IN
       /\ loc' = [NoLoc EXCEPT !.arg_addr = start_addr, !.read_size = size,
                               !.output_file = "dump.bin", !.fcb_file = blob,
                               !.init_i = IF blob = None THEN 0 ELSE 1,
                               !.firmware = loc.firmware]
       /\ pc' = IF blob = None THEN "done" ELSE "init"
       /\ ret' = IF blob = None THEN "false" ELSE "none"
  /\ op' = "read"
  /\ UNCHANGED <<self, setup_call, cmds, progress, hex_data, binary_data, out_file, exit_code>>

(***************************************************************************)
(* main(): the exit code.                                                  *)
(***************************************************************************)
\* --list: list_devices reads device_config.json itself, reports what it could
\* not read, and main() returns 0.
MainList ==
  /\ pc = "boot"
  /\ ~setup_call.called
  /\ \E loaded \in BOOLEAN : loc' = [NoLoc EXCEPT !.config_loaded = loaded]
  /\ op' = "list"
  /\ exit_code' = 0
  /\ pc' = "exit"
  /\ UNCHANGED <<self, setup_call, cmds, progress, ret, hex_data, binary_data, out_file>>

\* No --device: the help text and 0 when no operation was asked for, else 1.
MainNoDevice ==
  /\ pc = "boot"
  /\ ~setup_call.called
  /\ \E asked \in BOOLEAN :
       /\ op' = IF asked THEN "nodevice" ELSE "help"
       /\ exit_code' = IF asked THEN 1 ELSE 0
  /\ pc' = "exit"
  /\ UNCHANGED <<self, setup_call, loc, cmds, progress, ret, hex_data, binary_data, out_file>>

\* BlhostHelper(): _load_config cannot read device_config.json and exits.
MainConfigFails ==
  /\ pc = "boot"
  /\ ~setup_call.called
  /\ loc' = [NoLoc EXCEPT !.config_loaded = FALSE]
  /\ op' = "noconfig"
  /\ exit_code' = 1
  /\ pc' = "exit"
  /\ UNCHANGED <<self, setup_call, cmds, progress, ret, hex_data, binary_data, out_file>>

\* --write without --file.
MainWriteNoFile ==
  /\ pc = "ready"
  /\ op' = "nofile"
  /\ exit_code' = 1
  /\ pc' = "exit"
  /\ UNCHANGED <<self, setup_call, loc, cmds, progress, ret, hex_data, binary_data, out_file>>

\* Mutant of ExitCode: the process ends with 0 once the operation was run.
ExitCodeZero(success) == 0

\* "return 0 if success else 1"; an exception that leaves the operation is
\* caught by the handlers around main(), which exit with 1.
ExitCode(success) == IF success = "true" THEN 0 ELSE 1

MainReturn ==
  /\ pc = "done"
  /\ exit_code' = ExitCode(ret)
  /\ pc' = "exit"
  /\ UNCHANGED <<self, setup_call, op, loc, cmds, progress, ret, hex_data, binary_data, out_file>>

(***************************************************************************)
(* Specifications.                                                         *)
(***************************************************************************)
\* One run of the program: setup, one operation, exit.
Next ==
  \/ MainSetup
  \/ InitializeFlash
  \/ InitStep
  \/ EraseFlash
  \/ EraseStep
  \/ WriteFirmware
  \/ WriteStep
  \/ ReadFlash({NoneS} \cup AddrArgs, ReadSizeArgs, OutputArgs)
  \/ ReadStep(Texts(MaxOutPieces))
  \/ TestConnection
  \/ MainList
  \/ MainNoDevice
  \/ MainConfigFails
  \/ MainWriteNoFile
  \/ MainReturn

Spec == Init /\ [][Next]_vars

\* The helper used as an object: setup_device called again and again.
NextSetup == SetupDevice

SpecSetup == Init /\ [][NextSetup]_vars

\* The read/decode pipeline on a device that is set up, with every read-memory
\* output of at most MaxPieces pieces.
InitRead ==
  /\ self = setup_device(NewSession, "FGMH63XAA", None, None, 0, NoneS).session
  /\ setup_call = [NoSetupCall EXCEPT !.called = TRUE, !.ret = TRUE]
  /\ pc = "ready"
  /\ op = "none"
  /\ loc = NoLoc
  /\ cmds = <<>>
  /\ progress = <<>>
  /\ ret = "none"
  /\ hex_data = NoneS
  /\ binary_data = <<>>
  /\ out_file = NoFile
  /\ exit_code = -1

NextRead ==
  \/ ReadFlash({NoneS}, {NoneS}, {None})
  \/ InitStep
  \/ ReadStep(Texts(MaxPieces))

SpecRead == InitRead /\ [][NextRead]_vars

\* Write then read back against the stub programmer, on a device that is set
\* up; the command log runs on over both calls.
NextRoundTrip ==
  \/ WriteFirmwareOf(RtFirmwares, RtAddrs)
  \/ InitStep /\ StubReplied'
  \/ EraseStep /\ StubReplied'
  \/ WriteStep /\ StubReplied'
  \/ ReadBack
  \/ ReadStep({StubOutput(StubMemory(cmds), ReadAddress(loc.arg_addr),
                           ReadSize(loc.read_size))}) /\ StubReplied'

SpecRoundTrip == InitRead /\ [][NextRoundTrip]_vars

(***************************************************************************)
(* Properties.                                                             *)
(***************************************************************************)
Finished == pc \in {"done", "exit"}
CmdIndexes == 1..Len(cmds)
IsInit(c) == c.line = 362
IsErase(c) == c.line = 515
IsFirmwareWrite(c) == c.line = 548
IsRead(c) == c.line = 583
\* A command that returned a non-zero code or gave no result (timeout).
CmdFailed(c) == c.outcome \in {"rc1", "none"}
\* The number a command's argument denotes.
NumberOf(text) == ParseHex16(text).val
InitNames == <<"fill-memory", "write-memory", "configure-memory">>

EraseCmds == SelectSeq(cmds, IsErase)
FirmwareWrites == SelectSeq(cmds, IsFirmwareWrite)

RECURSIVE SumSizes(_)
SumSizes(cs) == IF cs = <<>> THEN 0 ELSE NumberOf(Head(cs).a2) + SumSizes(Tail(cs))

CeilDiv(a, b) == (a + b - 1) \div b

\* erase_flash returned True: to main(), or to write_firmware (which then goes
\* on to its write-memory command).
EraseReturnedTrue ==
  \/ op = "erase" /\ ret = "true"
  \/ op = "write" /\ (pc = "write" \/ FirmwareWrites # <<>>)

\* The explicit arguments of the erase_flash call, as numbers.
ExplicitAddr == NumberOf(loc.arg_addr)
ExplicitSize == IF loc.arg_size.t = "int" THEN loc.arg_size.v ELSE ParseInt0(loc.arg_size.s).val

ChunksCover(E, A, S) ==
  /\ Len(E) = CeilDiv(S, MAX_ERASE_BLOCK)
  /\ \A i \in 1..Len(E) : NumberOf(E[i].a2) >= 1 /\ NumberOf(E[i].a2) <= MAX_ERASE_BLOCK
  /\ NumberOf(E[1].a1) = A
  /\ \A i \in 2..Len(E) : NumberOf(E[i].a1) = NumberOf(E[i - 1].a1) + NumberOf(E[i - 1].a2)
  /\ SumSizes(E) = S

\* C1: an erase_flash call with an explicit address A and an explicit size
\* S > 0 whose initialization and erase commands all succeed issues exactly
\* ceil(S / MAX_ERASE_BLOCK) flash-erase-region commands, each of 1 to
\* MAX_ERASE_BLOCK bytes, the first at A, each next one where the previous one
\* ended, with sizes that sum to S.
C1_EraseChunks ==
  (EraseReturnedTrue /\ loc.arg_addr # NoneS /\ loc.arg_size.t # "none")
    => (ExplicitSize > 0 /\ ChunksCover(EraseCmds, ExplicitAddr, ExplicitSize))

\* C1 witness: an erase of two blocks and one byte, at an address given without
\* 0x, has returned True after three chunks.
C1_Witness ==
  /\ op = "erase" /\ ret = "true"
  /\ loc.arg_addr = NoPrefix(Hex08X(NS_start_addr))
  /\ loc.arg_size.t = "int" /\ loc.arg_size.v = 2 * MAX_ERASE_BLOCK + 1
  /\ Len(EraseCmds) = 3

\* C2: in write_firmware the firmware write-memory command is issued only after
\* the erase step fully succeeded (three initialization commands and erase
\* chunks covering the file size, all with code 0); when initialization or an
\* erase chunk fails, no firmware write-memory command is issued and
\* write_firmware returns False.
C2_WriteOnlyAfterErase ==
  op = "write" =>
    /\ (\E i \in CmdIndexes : (IsInit(cmds[i]) \/ IsErase(cmds[i])) /\ CmdFailed(cmds[i]))
         => (FirmwareWrites = <<>> /\ Finished /\ ret = "false")
    /\ (Finished /\ cmds = <<>>) => ret # "true"
    /\ \A i \in CmdIndexes :
         IsFirmwareWrite(cmds[i]) =>
           /\ i = Len(cmds)
           /\ \A j \in 1..(i - 1) : cmds[j].outcome = "rc0"
           /\ \A j \in 1..3 : IsInit(cmds[j])
           /\ \A j \in 4..(i - 1) : IsErase(cmds[j])
           /\ SumSizes(EraseCmds) = loc.firmware.size

\* C2 witness: write_firmware has returned False at the second erase chunk.
C2_Witness ==
  /\ op = "write" /\ ret = "false"
  /\ Len(cmds) = 5 /\ IsErase(cmds[5]) /\ cmds[5].outcome = "rc1"

\* C3: initialize_flash issues fill-memory at 0x2000F000 (4 bytes, marker
\* word), then write-memory of the blob to 0x2000F000, then configure-memory
\* 9 0x2000F000; each step follows a step that returned code 0, no step is
\* issued twice, and a step that fails is the last command issued and makes
\* the call return False.
C3_InitSequence ==
  \A i \in CmdIndexes :
    IsInit(cmds[i]) =>
      /\ i <= 3
      /\ cmds[i].name = InitNames[i]
      /\ cmds[i].a1 = <<"0", "x", "2", "0", "0", "0", "F", "0", "0", "0">>
      /\ i = 1 => (cmds[i].a2 = <<"4">> /\ cmds[i].a3 = "0xC0100002 word")
      /\ i = 2 => (cmds[i].a3 = loc.fcb_file /\ cmds[i].a3 \in FcbFilesOnDisk)
      /\ i = 3 => cmds[i].a2 = <<"9">>
      /\ \A j \in 1..(i - 1) : IsInit(cmds[j]) /\ cmds[j].outcome = "rc0"
      /\ CmdFailed(cmds[i]) => (Len(cmds) = i /\ Finished /\ ret = "false")

\* C3 witness: initialize_flash has returned False at its second command.
C3_Witness ==
  /\ op = "init" /\ ret = "false"
  /\ Len(cmds) = 2 /\ cmds[2].name = "write-memory" /\ cmds[2].outcome = "rc1"

\* C4: a flash-erase-region, firmware write-memory or read-memory command is
\* issued only after the three initialization commands of the same operation
\* returned code 0; when initialization fails none of them is issued.
C4_FlashAfterInit ==
  /\ \A i \in CmdIndexes :
       (IsErase(cmds[i]) \/ IsFirmwareWrite(cmds[i]) \/ IsRead(cmds[i])) =>
         /\ i > 3
         /\ \A j \in 1..3 :
              IsInit(cmds[j]) /\ cmds[j].name = InitNames[j] /\ cmds[j].outcome = "rc0"
  /\ (\E j \in CmdIndexes : IsInit(cmds[j]) /\ cmds[j].outcome # "rc0")
       => \A i \in CmdIndexes : IsInit(cmds[i])

\* C4 witness: read_flash has issued read-memory as its fourth command.
C4_Witness == op = "read" /\ Len(cmds) = 4 /\ IsRead(cmds[4])

\* C5: in initialize_flash, erase_flash, write_firmware and read_flash the first
\* command that returns a non-zero code or times out is the last command of
\* the operation, which returns False; for erase, the chunks issued are the
\* whole blocks from the start address up to the address of the failing chunk.
C5_FirstFailureIsLast ==
  \A i \in CmdIndexes :
    CmdFailed(cmds[i]) =>
      /\ i = Len(cmds)
      /\ Finished
      /\ ret = "false"
      /\ IsErase(cmds[i]) =>
           /\ \A m \in 4..i :
                /\ IsErase(cmds[m])
                /\ NumberOf(cmds[m].a1) = loc.start_int + (m - 4) * MAX_ERASE_BLOCK
                /\ m < i => (NumberOf(cmds[m].a2) = MAX_ERASE_BLOCK /\ cmds[m].outcome = "rc0")
           /\ loc.addr = NumberOf(cmds[i].a1)

\* C5 witness: erase_flash has returned False at its third chunk, which timed out.
C5_Witness ==
  /\ op = "erase" /\ ret = "false"
  /\ Len(cmds) = 6 /\ IsErase(cmds[6]) /\ cmds[6].outcome = "none"

(***************************************************************************)
(* Properties of the hex decoding, stated on the lines of the text.        *)
(***************************************************************************)
\* _parse_hex_to_file has run on hex_data.
ReadParsed == op = "read" /\ Finished /\ hex_data # NoneS

\* The lines of a text as split('\n') gives them after strip(), each stripped.
StrippedLines(text) ==
  LET raw == SplitOn(Strip(text), "\n", <<>>) IN [j \in 1..Len(raw) |-> Strip(raw[j])]

OnlyHexAndSpaces(line) == \A i \in 1..Len(line) : line[i] \in HexChars \cup {" "}
StartsTrailer(line) == line # <<>> /\ line[1] = "{"
TwoHexDigits(token) == Len(token) = 2 /\ token[1] \in HexChars /\ token[2] \in HexChars
ByteOf(token) == 16 * HexVal(token[1]) + HexVal(token[2])

\* The bytes of the two-digit hex tokens of a line, in order.
LineBytes(line) ==
  LET tokens == SelectSeq(SplitWs(line, <<>>), TwoHexDigits) IN
  [i \in 1..Len(tokens) |-> ByteOf(tokens[i])]

\* The bytes of the two-digit hex tokens of lines from..to, in order.
RECURSIVE BytesOfLines(_, _, _)
BytesOfLines(lines, from, to) ==
  IF from > to THEN <<>> ELSE LineBytes(lines[from]) \o BytesOfLines(lines, from + 1, to)

\* The same, leaving out the lines that hold another character than hex digits
\* and spaces.
RECURSIVE BytesOfHexLines(_, _, _)
BytesOfHexLines(lines, from, to) ==
  IF from > to THEN <<>>
  ELSE (IF OnlyHexAndSpaces(lines[from]) THEN LineBytes(lines[from]) ELSE <<>>)
         \o BytesOfHexLines(lines, from + 1, to)

\* The first line with property P, or one past the last line.
FirstLine(lines, P(_)) ==
  IF \E k \in 1..Len(lines) : P(lines[k])
  THEN CHOOSE k \in 1..Len(lines) : P(lines[k]) /\ \A j \in 1..(k - 1) : ~P(lines[j])
  ELSE Len(lines) + 1

NotOnlyHex(line) == ~OnlyHexAndSpaces(line)
EndsDecoding(line) == line = <<>> \/ StartsTrailer(line)
IsPrefix(p, q) == Len(p) <= Len(q) /\ p = SubSeq(q, 1, Len(p))

\* C6: when the lines of hex digits and spaces of the read-memory output are
\* followed by a line starting with "{", the decoded bytes are exactly the
\* two-digit hex tokens of the lines before that line, in order; nothing of the
\* "{" line or of a later line is decoded.
C6_StopsBeforeTrailer ==
  ReadParsed =>
    LET lines == StrippedLines(hex_data)
        k == FirstLine(lines, StartsTrailer)
    IN (/\ k <= Len(lines)
        /\ \A j \in 1..(k - 1) : lines[j] # <<>> /\ OnlyHexAndSpaces(lines[j]))
         => /\ binary_data = BytesOfLines(lines, 1, k - 1)
            /\ out_file.written => out_file.data = BytesOfLines(lines, 1, k - 1)

\* C6 witness: "0A", a "{" line and "00" were read; only 0x0A was decoded and saved.
C6_Witness ==
  /\ ReadParsed
  /\ hex_data = <<"0", "A", "\n", "{", "\n", "0", "0">>
  /\ binary_data = <<10>>
  /\ out_file.written

\* C7 as claimed: decoding stops at the first line that is not made of hex
\* digits and spaces only, so that every decoded byte comes from the lines
\* before it.
C7_StopsAtNonHexLine ==
  ReadParsed =>
    LET lines == StrippedLines(hex_data) IN
    IsPrefix(binary_data, BytesOfLines(lines, 1, FirstLine(lines, NotOnlyHex) - 1))

\* C7 as amended: decoding stops at the first empty line or line starting with
\* "{" only. When a line before that holds another character than hex digits and
\* spaces, no token of that line is decoded, the lines before it are decoded and
\* so are the hex lines after it, up to the line where decoding stops.
C7_SkipsNonHexLine ==
  ReadParsed =>
    LET lines == StrippedLines(hex_data)
        stop == FirstLine(lines, EndsDecoding)
        k == FirstLine(lines, NotOnlyHex)
    IN IF k < stop
       THEN binary_data = BytesOfLines(lines, 1, k - 1)
                            \o BytesOfHexLines(lines, k + 1, stop - 1)
       ELSE binary_data = BytesOfLines(lines, 1, stop - 1)

\* C7 witness: a line "G" was skipped and the line "00" after it was decoded.
C7_Witness ==
  /\ ReadParsed
  /\ hex_data = <<"G", "\n", "0", "0">>
  /\ binary_data = <<0>>

\* C8 as claimed: on every line read before decoding ends, a malformed token
\* (wrong length, or with a character that is no hex digit) is skipped alone:
\* the decoded bytes are the two-digit hex tokens of all these lines, in order.
C8_KeepsAllValidTokens ==
  ReadParsed =>
    LET lines == StrippedLines(hex_data) IN
    binary_data = BytesOfLines(lines, 1, FirstLine(lines, EndsDecoding) - 1)

\* C8 as amended: on a line made of hex digits and spaces only, a token of the
\* wrong length is skipped alone and the two-digit hex tokens of the line are
\* kept in order; a line that holds any other character, so any token that is
\* not hexadecimal, gives no byte at all, its valid tokens included.
C8_SkipsWrongLengthToken ==
  ReadParsed =>
    LET lines == StrippedLines(hex_data) IN
    binary_data = BytesOfHexLines(lines, 1, FirstLine(lines, EndsDecoding) - 1)

\* C8 witness: "00 f 0A" was read: the token "f" was skipped, 0x00 and 0x0A kept.
C8_Witness ==
  /\ ReadParsed
  /\ hex_data = <<"0", "0", " ", "f", " ", "0", "A">>
  /\ binary_data = <<0, 10>>

\* C9: when no byte is decoded from the read-memory output, read_flash returns
\* False and writes no output file; an output file is written only when at
\* least one byte was decoded, and it holds exactly the decoded bytes.
C9_NoDataNoFile ==
  /\ (ReadParsed /\ binary_data = <<>>) => (ret = "false" /\ ~out_file.written)
  /\ out_file.written =>
       /\ ReadParsed
       /\ binary_data # <<>>
       /\ out_file.data = binary_data
       /\ ret = "true"
  /\ (op = "read" /\ ret = "true") => out_file.written

\* C9 witness: the output held a trailer only; read_flash returned False
\* without a file.
C9_Witness ==
  /\ ReadParsed
  /\ hex_data = <<"{">>
  /\ binary_data = <<>>
  /\ ret = "false"
  /\ ~out_file.written

(***************************************************************************)
(* Properties of setup_device.                                             *)
(***************************************************************************)
\* An identifier that is no family of the registry and no variant of one.
UnknownModel(device_model) ==
  \A i \in 1..Len(Devices) :
    /\ Devices[i].name # device_model
    /\ \A j \in 1..Len(Devices[i].variants) : Devices[i].variants[j].name # device_model

SessionKept ==
  /\ self.device_category = setup_call.before.device_category
  /\ self.device_variant = setup_call.before.device_variant
  /\ self.variant_config = setup_call.before.variant_config
  /\ self.interface = setup_call.before.interface
  /\ self.connection_params = setup_call.before.connection_params

\* C10: setup_device with an identifier that is neither a family nor a variant
\* of the registry returns False and leaves device_category, device_variant,
\* variant_config, interface and connection_params as they were.
C10_UnknownDeviceFrame ==
  (setup_call.called /\ UnknownModel(setup_call.device_model))
    => (~setup_call.ret /\ SessionKept)

\* C10 witness: an unknown identifier was given to a helper that an earlier
\* call had set up.
C10_Witness ==
  /\ setup_call.called
  /\ setup_call.device_model = "RW612"
  /\ setup_call.before.device_category = "FCM363X"
  /\ self.device_variant = "FCM363XAA"

\* The registry, read family by family.
IsFamily(m) == \E i \in 1..Len(Devices) : Devices[i].name = m
Family(m) == Devices[CHOOSE i \in 1..Len(Devices) : Devices[i].name = m]
IsNestedVariant(m) ==
  \E i \in 1..Len(Devices) : \E j \in 1..Len(Devices[i].variants) :
    Devices[i].variants[j].name = m
\* The answer is the number k of a numbered list.
Selects(choice, k) == choice # Interrupt /\ Strip(choice) = DecDigitsOf(k)
NothingSelected(choice) == choice = Interrupt \/ Strip(choice) = <<>>

\* C11: a setup_device call with the identifier, interface, serial port, baud
\* rate and variant answer of the call before it returns what that call
\* returned and leaves device_category, device_variant, interface and
\* connection_params as that call left them, whatever the session was before.
C11_SetupIdempotent ==
  setup_call.repeats =>
    /\ setup_call.ret = setup_call.prev_ret
    /\ self.device_category = setup_call.before.device_category
    /\ self.device_variant = setup_call.before.device_variant
    /\ self.interface = setup_call.before.interface
    /\ self.connection_params = setup_call.before.connection_params

\* C11 witness: the second of two equal calls that pick variant 2 of FCM363X on
\* UART has returned True.
C11_Witness ==
  /\ setup_call.repeats /\ setup_call.ret
  /\ setup_call.device_model = "FCM363X" /\ setup_call.choice = <<"2">>
  /\ setup_call.interface = "uart" /\ setup_call.serial_port = "COM3"
  /\ self.device_variant = "FCM363XAB"
  /\ self.connection_params = <<"-p", "COM3", DEFAULT_BAUDRATE>>

\* What the call resolved to, seen in the session it saved.
SavedVariant(category, variant, config) ==
  /\ self.device_category = category
  /\ self.device_variant = variant
  /\ self.variant_config = config

ResolvesFamily(c) ==
  LET fam == Family(c.device_model) IN
  IF Len(fam.variants) = 0 THEN c.found.category = None /\ ~c.asked /\ ~c.ret
  ELSE IF Len(fam.variants) = 1
  THEN /\ ~c.asked
       /\ c.found = Resolved(fam.name, fam.variants[1].name, fam.variants[1].config)
       /\ c.ret => SavedVariant(fam.name, fam.variants[1].name, fam.variants[1].config)
  ELSE /\ c.asked
       /\ c.found = Resolved(fam.name, None, NoConfig)
       /\ NothingSelected(c.choice) => (~c.ret /\ SessionKept)
       /\ c.ret => \E k \in 1..Len(fam.variants) :
                     /\ Selects(c.choice, k)
                     /\ SavedVariant(fam.name, fam.variants[k].name, fam.variants[k].config)

ResolvesVariant(c) ==
  /\ ~c.asked
  /\ c.found.variant = c.device_model
  /\ \E i \in 1..Len(Devices) : \E j \in 1..Len(Devices[i].variants) :
       /\ Devices[i].variants[j].name = c.device_model
       /\ c.found.category = Devices[i].name
       /\ c.found.config = Devices[i].variants[j].config
  /\ c.ret => SavedVariant(c.found.category, c.device_model, c.found.config)

\* C12 as claimed: a family with one variant resolves to it without a
\* selection; a family with several variants resolves through a selection only
\* and fails when none is made; an identifier equal to a variant nested under
\* a family resolves directly to that variant and its family; any other
\* identifier fails.
C12_ResolutionAsClaimed ==
  setup_call.called =>
    /\ IsFamily(setup_call.device_model) => ResolvesFamily(setup_call)
    /\ IsNestedVariant(setup_call.device_model) => ResolvesVariant(setup_call)
    /\ (~IsFamily(setup_call.device_model) /\ ~IsNestedVariant(setup_call.device_model))
         => (setup_call.found.category = None /\ ~setup_call.ret)

\* C12 as amended: family names are matched first. A family with one variant
\* resolves to it without a selection; a family with several variants resolves
\* through a selection only and fails when none is made, also when one of its
\* variants bears the family's name; an identifier that is no family name and
\* equals a variant nested under a family resolves directly to that variant and
\* its family; any other identifier fails.
C12_Resolution ==
  setup_call.called =>
    /\ IsFamily(setup_call.device_model) => ResolvesFamily(setup_call)
    /\ (~IsFamily(setup_call.device_model) /\ IsNestedVariant(setup_call.device_model))
         => ResolvesVariant(setup_call)
    /\ (~IsFamily(setup_call.device_model) /\ ~IsNestedVariant(setup_call.device_model))
         => (setup_call.found.category = None /\ ~setup_call.ret)

\* C12 witness: FCM365X, a family of two variants and the name of one of them,
\* was resolved through the selection of the second variant.
C12_Witness ==
  /\ setup_call.called /\ setup_call.ret
  /\ setup_call.device_model = "FCM365X" /\ setup_call.asked
  /\ setup_call.choice = <<"2">>
  /\ self.device_variant = "FCM365XAB"

\* The call got as far as the interface selection: the identifier resolved to a
\* variant, directly or through a selection.
VariantSettled(c) ==
  /\ c.found.category # None
  /\ c.found.variant = None =>
       \E k \in 1..Len(Family(c.found.category).variants) : Selects(c.choice, k)

InterfaceSelected(c, fam) ==
  /\ c.interface # None =>
       IF SeqHas(fam.interfaces, c.interface)
       THEN self.interface = c.interface
       ELSE ~c.ret /\ SessionKept
  /\ c.interface = None =>
       IF fam.default_interface # None
       THEN IF SeqHas(fam.interfaces, fam.default_interface)
            THEN self.interface = fam.default_interface
            ELSE ~c.ret /\ SessionKept
       ELSE IF Len(fam.interfaces) = 1
            THEN self.interface = fam.interfaces[1]
            ELSE ~c.ret /\ SessionKept

\* C13: in setup_device an interface given that the device does not support
\* makes the call fail; with no interface given the configured default is used
\* if there is one, else the only supported interface if there is exactly one,
\* else the call fails; after a call that succeeded the session's interface is
\* one the device supports.
C13_InterfaceSelection ==
  setup_call.called =>
    /\ VariantSettled(setup_call)
         => InterfaceSelected(setup_call, Family(setup_call.found.category))
    /\ setup_call.ret =>
         /\ IsFamily(self.device_category)
         /\ SeqHas(Family(self.device_category).interfaces, self.interface)

\* C13 witness: FCMB62N, whose default interface USB it does not support, was
\* set up with no interface given, and the call failed.
C13_Witness ==
  /\ setup_call.called /\ ~setup_call.ret
  /\ setup_call.device_model = "FCMB62N" /\ setup_call.interface = None
  /\ setup_call.serial_port = "COM3"
  /\ setup_call.before.interface = "uart" /\ self.interface = "uart"

(***************************************************************************)
(* Properties of erase_flash and write_firmware.                           *)
(***************************************************************************)
\* C14: the progress values of erase_flash, one before each chunk, start at 0,
\* never decrease from one chunk to the next, and are all at least 0 and
\* strictly less than 100 (100 * num / den with 0 <= num < den).
C14_ProgressRange ==
  /\ Len(progress) = Len(EraseCmds)
  /\ \A i \in 1..Len(progress) :
       /\ progress[i].den > 0
       /\ progress[i].den = loc.size_bytes
       /\ 0 <= progress[i].num
       /\ progress[i].num < progress[i].den
       /\ i = 1 => progress[i].num = 0
       /\ i > 1 => (/\ progress[i - 1].den = progress[i].den
                    /\ progress[i - 1].num <= progress[i].num)

\* C14 witness: the third chunk of an erase of two blocks and one byte was
\* announced at 100 * 2 MiB / (2 MiB + 1) percent.
C14_Witness ==
  /\ op = "erase"
  /\ Len(progress) = 3
  /\ progress[3] = [num |-> 2 * MAX_ERASE_BLOCK, den |-> 2 * MAX_ERASE_BLOCK + 1]

\* The variant of the session declares exactly one geometry.
SingleGeometry ==
  /\ self.variant_config.present
  /\ self.variant_config.has_flash_configs
  /\ Len(self.variant_config.flash_configs) = 1

\* The number of MiB a geometry name stands for.
MiBOf(name) == IF name = "4M" THEN 4 ELSE IF name = "8M" THEN 8 ELSE 16

\* The base address of the region picked at the region prompt: the secure
\* region for the answer 2, the non-secure region otherwise.
PickedBase(answer) == IF Selects(answer, 2) THEN 402653184 ELSE 134217728

\* C15: on a device whose variant declares one geometry, erase_flash with no
\* address and no size shows no size prompt and takes the byte count of that
\* geometry as the size, starts at the base address of the region selected
\* (the non-secure one by default), and, when every command succeeds, issues
\* one erase command of 1 MiB per MiB of the geometry, from that base on.
C15_FullEraseSingleGeometry ==
  (op = "erase" /\ loc.arg_addr = NoneS /\ loc.arg_size.t = "none" /\ SingleGeometry) =>
    LET name == self.variant_config.flash_configs[1].size IN
    /\ loc.size_answer = NoneS
    /\ loc.start_addr # NoneS =>
         /\ loc.start_int = PickedBase(loc.region_answer)
         /\ loc.size_bytes = MiBOf(name) * 1048576
         /\ loc.flash_size_str = name
    /\ ret = "true" =>
         /\ Len(EraseCmds) = MiBOf(name)
         /\ \A i \in 1..Len(EraseCmds) :
              /\ NumberOf(EraseCmds[i].a2) = 1048576
              /\ NumberOf(EraseCmds[i].a1) = PickedBase(loc.region_answer) + (i - 1) * 1048576
              /\ EraseCmds[i].outcome = "rc0"

\* C15 witness: on FGMH63XAA (8M alone) an erase with no address and no size,
\* Enter typed at the region prompt, has returned True after 8 chunks.
C15_Witness ==
  /\ op = "erase" /\ ret = "true"
  /\ self.device_variant = "FGMH63XAA"
  /\ loc.arg_addr = NoneS /\ loc.arg_size.t = "none" /\ loc.region_answer = <<>>
  /\ Len(EraseCmds) = 8
  /\ NumberOf(EraseCmds[1].a1) = 134217728

(***************************************************************************)
(* Write and read back.                                                    *)
(***************************************************************************)
\* read_flash returned True after a write_firmware that returned True, with
\* the address given to that write_firmware and the length of the file.
ReadBackDone ==
  /\ op = "read" /\ ret = "true"
  /\ loc.firmware.exists
  /\ \E i \in CmdIndexes :
       /\ IsFirmwareWrite(cmds[i])
       /\ loc.arg_addr = cmds[i].a1
  /\ loc.read_size = DecDigitsOf(loc.firmware.size)

\* C16: against a stub programmer that keeps the bytes written and echoes them
\* as a hex dump, a write_firmware of a file at address A that succeeds,
\* followed by a read_flash of as many bytes at A that succeeds, leaves an
\* output file that holds the bytes of the file.
C16_RoundTrip ==
  ReadBackDone => (out_file.written /\ out_file.data = FileBytes(loc.firmware.path))

\* C16 for addresses given with 0x: the bytes come back.
C16_RoundTripPrefixed ==
  (ReadBackDone /\ StartsWith(loc.arg_addr, <<"0", "x">>))
    => (out_file.written /\ out_file.data = FileBytes(loc.firmware.path))

(***************************************************************************)
(* Properties of test_connection and of main().                            *)
(***************************************************************************)
\* The process gave a structured status of code 0.
StatusZero(reply) ==
  /\ reply.kind = "result" /\ reply.returncode = 0 /\ reply.out = "json"
  /\ reply.json.j = "object" /\ reply.json.status = "zero"
\* The process gave nothing machine-readable and the return code 0.
PlainSuccess(reply) ==
  reply.kind = "result" /\ reply.returncode = 0 /\ reply.out \in {"blank", "text"}

\* C17: test_connection issues exactly one get-property command and returns
\* True exactly when the result has a structured status of code 0, or has no
\* machine-readable structure and the return code is 0; for every other
\* outcome it returns False.
C17_TestConnection ==
  (op = "test" /\ Finished) =>
    /\ Len(cmds) = 1 /\ cmds[1].name = "get-property"
    /\ loc.reply.kind # "interrupt" =>
         IF StatusZero(loc.reply) \/ PlainSuccess(loc.reply)
         THEN ret = "true" ELSE ret = "false"

\* The output is what blhost prints: nothing, text that is no JSON, or a JSON
\* object whose "response", if any, is a list of integers and which has no key
\* "returncode".
BlhostOutput(reply) ==
  reply.out = "json" =>
    /\ reply.json.j = "object"
    /\ reply.json.response # "text"
    /\ reply.json.returncode = "absent"

\* The statement of C17 for the outputs blhost prints.
C17_TestConnectionBlhost ==
  (op = "test" /\ Finished /\ loc.reply.kind # "interrupt" /\ BlhostOutput(loc.reply)) =>
    /\ Len(cmds) = 1 /\ cmds[1].name = "get-property"
    /\ IF StatusZero(loc.reply) \/ PlainSuccess(loc.reply)
       THEN ret = "true" ELSE ret = "false"

\* C18: write_firmware with a firmware file that does not exist or has size 0
\* returns False and runs no external command.
C18_NoFileNoCommand ==
  (op = "write" /\ (~loc.firmware.exists \/ loc.firmware.size = 0)) =>
    /\ Finished
    /\ ret = "false"
    /\ cmds = <<>>

\* write_firmware has returned False for a file that exists and is empty.
C18_Witness ==
  /\ op = "write" /\ Finished /\ ret = "false" /\ cmds = <<>>
  /\ loc.firmware.exists /\ loc.firmware.size = 0

\* The target address of a write_firmware call: the address argument read as
\* the hexadecimal number it is (erase_flash reads it so), the NS base address
\* when none was given.
WriteTarget == NumberOf(loc.write_addr)

\* The commands of a write_firmware call that returned True, but for the
\* address of the last one: the three initialization commands, erase chunks
\* that cover the file size from the target address, then one firmware
\* write-memory command with the file, and no read-memory command.
WriteSequence ==
  /\ Len(cmds) >= 5
  /\ \A j \in 1..3 : IsInit(cmds[j]) /\ cmds[j].name = InitNames[j]
  /\ \A j \in 4..(Len(cmds) - 1) : IsErase(cmds[j])
  /\ ChunksCover(EraseCmds, WriteTarget, loc.firmware.size)
  /\ IsFirmwareWrite(cmds[Len(cmds)])
  /\ cmds[Len(cmds)].name = "write-memory"
  /\ cmds[Len(cmds)].a3 = loc.firmware.path
  /\ \A j \in CmdIndexes : ~IsRead(cmds[j]) /\ cmds[j].name # "read-memory"

\* C19: a write_firmware call that returns True has issued the three
\* initialization commands, then erase commands covering exactly file_size
\* bytes from the target address (0x08000000 when no address is given), then
\* exactly one write-memory command that transfers the file to the target
\* address, and nothing else; it issues no read-memory command.
C19_WriteSequence ==
  (op = "write" /\ ret = "true") =>
    /\ WriteSequence
    /\ StubNumber(cmds[Len(cmds)].a1).ok
    /\ StubNumber(cmds[Len(cmds)].a1).val = WriteTarget

\* The statement of C19 for an address given with 0x, or not given.
C19_WriteSequencePrefixed ==
  (op = "write" /\ ret = "true" /\ HasHexPrefix(loc.write_addr)) =>
    /\ WriteSequence
    /\ StubNumber(cmds[Len(cmds)].a1).ok
    /\ StubNumber(cmds[Len(cmds)].a1).val = WriteTarget

\* The statement of C19 with the address of write-memory compared as text.
C19_WriteSequenceText ==
  (op = "write" /\ ret = "true") =>
    /\ WriteSequence
    /\ cmds[Len(cmds)].a1 = loc.write_addr

\* The operation main() selected has succeeded.
OperationSucceeded ==
  \/ op \in {"test", "read", "write", "erase", "init"} /\ ret = "true"
  \/ op = "list" /\ loc.config_loaded
\* The failures of a run: setup_device returned False, the operation returned
\* False, an interrupt or another exception left the operation, the
\* configuration could not be loaded, or a required argument was missing.
RunFailed ==
  \/ setup_call.called /\ ~setup_call.ret
  \/ ret \in {"false", "raise"}
  \/ ~loc.config_loaded
  \/ op \in {"nodevice", "nofile"}

\* C20: the process exits with 0 when the selected operation succeeds and with
\* 1 on every failure (setup failure, failure of the operation, interruption,
\* configuration load failure, an exception inside the operation); it ends
\* with no other code.
C20_ExitCode ==
  pc = "exit" =>
    /\ exit_code \in {0, 1}
    /\ OperationSucceeded => exit_code = 0
    /\ RunFailed => exit_code = 1

\* The statement of C20 for every run but a --list run.
C20_ExitCodeNoList ==
  (pc = "exit" /\ op # "list") =>
    /\ exit_code \in {0, 1}
    /\ OperationSucceeded => exit_code = 0
    /\ RunFailed => exit_code = 1

(***************************************************************************)
(* Properties of geometry resolution, prompts and session state.           *)
(***************************************************************************)
\* The geometries the session's variant declares.
Declared == IF NoFlashConfigs(self.variant_config) THEN <<>> ELSE self.variant_config.flash_configs
Flagged == {i \in 1..Len(Declared) : Declared[i].default}
\* The index in Declared of the geometry initialize_flash is to use when it is
\* called with flash_size; 0 when there is none.
GeometryFor(flash_size) ==
  IF flash_size # None
  THEN IF \E i \in 1..Len(Declared) : Declared[i].size = flash_size
       THEN CHOOSE i \in 1..Len(Declared) : Declared[i].size = flash_size
       ELSE 0
  ELSE IF Flagged # {} THEN CHOOSE i \in Flagged : \A j \in Flagged : i <= j
  ELSE IF Len(Declared) > 0 THEN 1
  ELSE 0
\* No geometry, no blob name, or no blob file on disk.
Unresolved(g) ==
  \/ g = 0
  \/ Declared[g].fcb_file = None
  \/ Declared[g].fcb_file \notin FcbFilesOnDisk

\* C21: initialize_flash called without a geometry uses the geometry flagged
\* default, else the first declared one, else fails; when no geometry or no
\* blob is resolved, or the blob file is not on disk, it returns False and
\* issues no command.
C21_DefaultGeometry ==
  op = "init" =>
    IF Unresolved(GeometryFor(loc.flash_size_str))
    THEN Finished /\ ret = "false" /\ cmds = <<>>
    ELSE /\ loc.fcb_file = Declared[GeometryFor(loc.flash_size_str)].fcb_file
         /\ ret = "true" => Len(cmds) = 3
         /\ Len(cmds) >= 2 => cmds[2].a3 = Declared[GeometryFor(loc.flash_size_str)].fcb_file

\* initialize_flash() without a geometry has used the second declared
\* geometry, the one flagged default, and returned True.
C21_Witness ==
  /\ op = "init" /\ ret = "true" /\ loc.flash_size_str = None
  /\ Len(Declared) = 2 /\ Flagged = {2}
  /\ cmds[2].a3 = Declared[2].fcb_file

\* initialize_flash() has returned False without a command for a variant whose
\* default geometry names a blob that is not on disk.
C21_WitnessNoBlob ==
  /\ op = "init" /\ ret = "false" /\ loc.flash_size_str = None /\ cmds = <<>>
  /\ GeometryFor(None) # 0 /\ Declared[GeometryFor(None)].fcb_file \notin FcbFilesOnDisk

\* erase_flash, called with an explicit size by main() or by write_firmware,
\* has ended with a positive size and with every command it issued at code 0.
ErasedExplicit ==
  /\ op \in {"erase", "write"} /\ Finished
  /\ loc.arg_size.t # "none" /\ loc.size_bytes > 0
  /\ \A i \in CmdIndexes : cmds[i].outcome = "rc0"

\* C22: for every explicit size above 0, whether or not it is the byte count
\* of a named geometry and whether or not the variant declares that geometry,
\* erase_flash (and write_firmware of a file of that size) passes
\* initialization and returns True when the variant has a default geometry
\* whose blob exists and all commands succeed.
C22_SizeAdvisory ==
  (ErasedExplicit /\ Flagged # {} /\ ~Unresolved(GeometryFor(None))) => ret = "true"

\* The statement of C22 for the sizes that are no byte count of a named
\* geometry, or of one the variant declares with a blob on disk.
C22_SizeDeclared ==
  (/\ ErasedExplicit
   /\ ~Unresolved(GeometryFor(None))
   /\ SizeNameOf(loc.size_bytes) # None => ~Unresolved(GeometryFor(SizeNameOf(loc.size_bytes))))
    => ret = "true"

\* The explicit size of the erase_flash call is a number, and it is 0 or less.
SizeNotPositive ==
  /\ loc.arg_size.t # "none"
  /\ loc.arg_size.t = "str" => ParseInt0(loc.arg_size.s).ok
  /\ ExplicitSize <= 0
\* The explicit address of the call, if any, is a hexadecimal number.
AddressReadable == loc.arg_addr = NoneS \/ ParseHex16(WithPrefix(loc.arg_addr)).ok

C24_PromptInterrupt ==
  (op = "erase" /\ (loc.region_answer = Interrupt \/ loc.size_answer = Interrupt)) =>
    /\ Finished
    /\ ret = "false"
    /\ cmds = <<>>
    /\ pc = "exit" => exit_code = 1

\* The process has exited after an interrupt at the size prompt, which
\* followed an answer to the region prompt.
C24_Witness ==
  /\ op = "erase" /\ pc = "exit" /\ exit_code = 1
  /\ loc.region_answer = <<"2">> /\ loc.size_answer = Interrupt

\* The process has exited after an interrupt at the region prompt.
C24_WitnessRegion ==
  /\ op = "erase" /\ pc = "exit" /\ exit_code = 1
  /\ loc.region_answer = Interrupt

\* C25: a setup_device call that returns False, for whatever reason, leaves
\* device_category, device_variant, variant_config, interface and
\* connection_params as they were before the call.
C25_FailureFrame ==
  (setup_call.called /\ ~setup_call.ret) => SessionKept

\* The interface the call settles on, None when there is none.
ChosenInterface(c, fam) ==
  IF c.interface # None THEN c.interface
  ELSE IF fam.default_interface # None THEN fam.default_interface
  ELSE IF Len(fam.interfaces) = 1 THEN fam.interfaces[1]
  ELSE None
\* The call failed for want of a serial port: the variant was settled and UART,
\* which the device supports, was selected.
FailedForPort(c) ==
  /\ ~c.ret /\ c.serial_port = None
  /\ VariantSettled(c)
  /\ ChosenInterface(c, Family(c.found.category)) = "uart"
  /\ SeqHas(Family(c.found.category).interfaces, "uart")

\* The statement of C25 for the failures other than a missing serial port; a
\* call that fails for want of a serial port keeps connection_params only.
C25_FailureFrameBeforeSave ==
  (setup_call.called /\ ~setup_call.ret) =>
    IF FailedForPort(setup_call)
    THEN /\ self.connection_params = setup_call.before.connection_params
         /\ self.device_category = setup_call.found.category
         /\ self.interface = "uart"
    ELSE SessionKept

\* The firmware write-memory command starts where the first erase chunk
\* started, both addresses read as the programmer reads them.
WriteWhereErased(w) ==
  /\ EraseCmds # <<>>
  /\ StubNumber(w.a1).ok
  /\ StubNumber(EraseCmds[1].a1).ok
  /\ StubNumber(w.a1).val = StubNumber(EraseCmds[1].a1).val

\* C26: in write_firmware, for every start address the caller gives, with or
\* without 0x, the address of the firmware write-memory command denotes the
\* address at which the first erase chunk was issued, so that what is
\* programmed lies in what was just erased.
C26_WriteAddressErased ==
  op = "write" =>
    \A i \in CmdIndexes :
      IsFirmwareWrite(cmds[i]) =>
        /\ WriteWhereErased(cmds[i])
        /\ SumSizes(EraseCmds) >= loc.firmware.size

\* The statement of C26 for a start address given with 0x, or not given.
C26_WriteAddressErasedPrefixed ==
  (op = "write" /\ HasHexPrefix(loc.write_addr)) =>
    \A i \in CmdIndexes :
      IsFirmwareWrite(cmds[i]) =>
        /\ WriteWhereErased(cmds[i])
        /\ SumSizes(EraseCmds) >= loc.firmware.size

\* The answer to the region prompt is text that is not empty and is not the
\* number of a listed region.
NoListedRegion(choice) ==
  /\ choice # Interrupt
  /\ Strip(choice) # <<>>
  /\ \A k \in 1..Len(FLASH_REGIONS) : ~Selects(choice, k)

\* C27: erase_flash without an address issues erase commands only for a region
\* the user selected or accepted with an empty answer; an answer that is not
\* empty and not the number of a listed region never leads to an erase command.
C27_OnlySelectedRegion ==
  (op = "erase" /\ loc.arg_addr = NoneS /\ NoListedRegion(loc.region_answer)) =>
    EraseCmds = <<>>

\* The statement of C27 for answers that are no number; an answer that is a
\* number outside the list selects the NS region.
C27_NonNumericCancels ==
  (op = "erase" /\ loc.arg_addr = NoneS /\ NoListedRegion(loc.region_answer)) =>
    IF ParseDec(Strip(loc.region_answer)).ok
    THEN \A i \in 1..Len(EraseCmds) : NumberOf(EraseCmds[i].a1) >= NS_start_addr
                                      /\ NumberOf(EraseCmds[i].a1) < S_start_addr
    ELSE Finished /\ ret = "false" /\ cmds = <<>>

===========================================================================
